---- MODULE Spec2Model ----
(***************************************************************************)
(* Model of the ctf-proxy log-ingestion engine: the tap spool (TapsFolder  *)
(* and HttpTapsFolder), the access-log tail (AccessLogReader), the HTTP    *)
(* ingest cycle (HttpProcessor.process_new_access_log_entries), the        *)
(* per-tap processor (HttpTapProcessor.process_tap) and the Store tables   *)
(* it writes.  The proxy (Envoy) is the environment: it creates tap files  *)
(* and appends access-log lines.                                           *)
(*                                                                         *)
(* Environment assumptions: tap file names are never reused by the proxy;  *)
(* os.remove of an existing tap file succeeds; the access log is           *)
(* append-only; the tap directory holds regular files only.                *)
(***************************************************************************)
EXTENDS Integers, Sequences, FiniteSets, TLC

\* ------------------------------------------------------------------ bounds
MaxLogLines == 2
MaxBatches == 3
MaxRestarts == 1
\* the access-log tail on its own: lines in the log, calls, max_entries drawn
MaxTailLines == 4
MaxTailCalls == 3
MaxTailEntries == 2
\* the TCP tap processor on its own: taps processed
MaxTcpTaps == 3
\* the session tables on their own: insert calls, request ids
MaxLinkInserts == 3
MaxLinkRequests == 2
\* the in-memory session index on its own: requests added
MaxSessionRequests == 3
\* the counter tables on their own: increments made
MaxCounterCalls == 3
\* the ad-hoc SQL endpoint on its own: requests posted
MaxSqlCalls == 1
\* the API middleware on its own: requests made
MaxAuthRequests == 2
\* the configuration on its own: clock values, rewrites of the file, saves
MaxClock == 2
MaxConfigWrites == 2
MaxSaves == 2
\* calls of start_watching and stop_watching on one Config
MaxWatchCalls == 3
\* the batch loop: batch ids created, changes of the wall clock
MaxBatchIds == 2
MaxClockChanges == 2
\* number of process_tap calls
MaxHttpIngests == 2

\* --------------------------------------------------------- program constants
max_load_retries == 3
\* read_new_entries(max_entries=1000) in process_new_access_log_entries
ingest_max_entries == 1000
\* tcp_connection_stats_precision of a port without a configured service
default_precision == 100
\* milliseconds in a minute, the width of a time bucket
minute_ms == 60000
max_files_per_batch == 100
IGNORED_TAP_TIMEOUT_SECONDS == 60
default_limit == 1000
default_timeout == 10
max_timeout == 60

\* Python's None, for string-valued and for integer-valued results
NONE == "None"
NoPort == -1

\* ------------------------------------------------------------- tap universe
JsonFiles == {"t1.json", "t2.json", "t3.json", "t4.json"}
OtherFiles == {"junk.tmp"}
Files == JsonFiles \cup OtherFiles

endswith_json(name) == name \in JsonFiles

\* Strings that the code parses are sequences of characters.
PathA == <<"/", "a">>
PathAQuery == <<"/", "a", "?", "x">>
PathB == <<"/", "b">>
Host8080 == <<"s", ":", "8", "0", "8", "0">>
HostNoPort == <<"s">>

\* The parsed JSON of each tap file once the proxy has written it completely.
\* body tokens: "F" is a match of config.flag_format, anything else is not.
\* t1 and t3 carry the same x-request-id; t2 is a blocked request; t4 has no
\* x-request-id header.
TapContent(name) ==
    CASE name = "t1.json" ->
           [empty |-> FALSE, request_id |-> "r1", path_header |-> PathA, x_blocked |-> FALSE,
            req_body |-> <<"F">>, resp_body |-> <<"x", "F">>]
      [] name = "t2.json" ->
           [empty |-> FALSE, request_id |-> "r2", path_header |-> PathAQuery, x_blocked |-> TRUE,
            req_body |-> <<>>, resp_body |-> <<"F">>]
      [] name = "t3.json" ->
           [empty |-> FALSE, request_id |-> "r1", path_header |-> PathB, x_blocked |-> FALSE,
            req_body |-> <<>>, resp_body |-> <<>>]
      [] name = "t4.json" ->
           [empty |-> FALSE, request_id |-> NONE, path_header |-> PathB, x_blocked |-> FALSE,
            req_body |-> <<>>, resp_body |-> <<>>]
      [] OTHER ->
           [empty |-> TRUE, request_id |-> NONE, path_header |-> <<>>, x_blocked |-> FALSE,
            req_body |-> <<>>, resp_body |-> <<>>]

\* What dict.pop(name, None) returns for a missing key
NoData == TapContent(NONE)

\* Python truthiness of a parsed tap: None and {} are falsy
Truthy(data) == ~data.empty

\* An ISO-8601 start_time as the datetime it parses to: minutes since the
\* epoch, second and millisecond within the minute.
IsoTime(minute, second, millisecond) ==
    [minute |-> minute, second |-> second, millisecond |-> millisecond]

\* convert_datetime_to_timestamp: int(dt.timestamp() * 1000)
convert_datetime_to_timestamp(dt) == (dt.minute * 60 + dt.second) * 1000 + dt.millisecond

\* start_time.replace(second=0, microsecond=0)
replace_second_zero(dt) == [dt EXCEPT !.second = 0, !.millisecond = 0]

\* Lines the proxy may append to the access log.
ObjLineAt(sid, host, path, start_time) ==
    [kind |-> "object", stream_id |-> sid, upstream_host |-> host, path |-> path,
     start_time |-> start_time]
ObjLine(sid, host, path) == ObjLineAt(sid, host, path, IsoTime(0, 59, 999))
OtherLine(kind) ==
    [kind |-> kind, stream_id |-> NONE, upstream_host |-> <<>>, path |-> <<>>,
     start_time |-> IsoTime(0, 0, 0)]
LineR1 == ObjLine("r1", Host8080, PathA)
LineR2 == ObjLineAt("r2", Host8080, PathAQuery, IsoTime(1, 0, 1))
LineR2NoPort == ObjLine("r2", HostNoPort, <<>>)
LineNoStreamId == ObjLine(NONE, Host8080, PathA)
LineMalformed == OtherLine("malformed")
LineBlank == OtherLine("blank")
\* the last line while the proxy has written only a part of it
LinePartial == OtherLine("partial")
LineNonObject == OtherLine("nonobject")

\* byte length of a line, newline included
LineLen(line) == IF line.kind \in {"malformed", "blank", "partial"} THEN 1 ELSE 2

\* Writes of process_tap at which the Store may raise ("none": no failure).
FailPoints == {"none", "http_requests", "service_stats", "alerts", "tail"}

\* ------------------------------------------------------------------- state
VARIABLES
    tap_dir,             \* tap directory: file name -> "absent" | "partial" | "complete" | "removed"
    access_log,          \* the access-log file: sequence of lines
    pos_file,            \* the <path>.pos sidecar file
    last_position,       \* AccessLogReader.last_position
    cache,               \* TapsFolder.cache: file name -> parsed data
    request_id_to_file,  \* HttpTapsFolder.request_id_to_file
    to_remove,           \* TapsFolder.to_remove
    failed_to_load,      \* TapsFolder.failed_to_load (0: key absent)
    db,                  \* committed contents of the Store
    archives,            \* archive folder: set of [batch_id, members]
    next_batch_count,    \* BatchRunner.next_batch_count
    restarts,            \* number of process restarts so far
    last_run,            \* observation of the latest ingest cycle
    lost,                \* log lines read by a completed cycle that matched no tap
    unmatched,           \* log lines read by any cycle in which they matched no tap
    given_up,            \* files this spool gave up loading (max_load_retries reached)
    tail,                \* a reader used on its own: lines returned so far, calls made
    tcp,                 \* the TCP tap processor used on its own: its Store, the last tap
    session_db,          \* the session and session_link tables used on their own
    session_storage,     \* a SessionsStorage used on its own: its dicts, the last get_links
    counters,            \* the counter tables used on their own, the last increment
    sql,                 \* POST /api/sql: the caller, its worker thread, the connection
    auth,                \* the API middleware on its own: the loaded config, the last request
    conf,                \* the configuration file, its backups, the live config, the watcher
    watching,            \* Config._watcher, the Watcher objects, the threads calling start and stop
    batch,               \* BatchProcessor: the loop of process_taps, its tap folder, clock and archives
    http                 \* HttpTapProcessor: the Store and the SessionsStorage calls of process_tap

vars == <<tap_dir, access_log, pos_file, last_position, cache, request_id_to_file,
          to_remove, failed_to_load, db, archives, next_batch_count, restarts, last_run,
          lost, unmatched, given_up, tail, tcp, session_db, session_storage, counters,
          sql,
          auth,
          conf,
          watching,
          batch,
          http>>

\* the variables of the ingest, and those of the components modelled on their own
ingest_vars == <<tap_dir, pos_file, cache, request_id_to_file, to_remove, failed_to_load,
                 db, archives, next_batch_count, restarts, last_run, lost, unmatched,
                 given_up>>
component_vars == <<tail, tcp, session_db, session_storage, counters, sql, auth, conf, watching, batch, http>>
not_tail == <<tcp, session_db, session_storage, counters, sql, auth, conf, watching, batch, http>>
not_tcp == <<tail, session_db, session_storage, counters, sql, auth, conf, watching, batch, http>>
not_session_db == <<tail, tcp, session_storage, counters, sql, auth, conf, watching, batch, http>>
not_session_storage == <<tail, tcp, session_db, counters, sql, auth, conf, watching, batch, http>>
not_counters == <<tail, tcp, session_db, session_storage, sql, auth, conf, watching, batch, http>>
not_sql == <<tail, tcp, session_db, session_storage, counters, auth, conf, watching, batch, http>>
not_auth == <<tail, tcp, session_db, session_storage, counters, sql, conf, watching, batch, http>>
not_conf == <<tail, tcp, session_db, session_storage, counters, sql, auth, watching, batch, http>>
not_watching == <<tail, tcp, session_db, session_storage, counters, sql, auth, conf, batch, http>>
not_batch == <<tail, tcp, session_db, session_storage, counters, sql, auth, conf, watching, http>>
not_http == <<tail, tcp, session_db, session_storage, counters, sql, auth, conf, watching, batch>>

\* ------------------------------------------------------- AccessLogReader
\* decimal digits
IsDigit(c) == c \in {"0", "1", "2", "3", "4", "5", "6", "7", "8", "9"}
DigitVal(c) ==
    CASE c = "0" -> 0 [] c = "1" -> 1 [] c = "2" -> 2 [] c = "3" -> 3 [] c = "4" -> 4
      [] c = "5" -> 5 [] c = "6" -> 6 [] c = "7" -> 7 [] c = "8" -> 8 [] c = "9" -> 9

RECURSIVE DecimalValue(_)
DecimalValue(str) ==
    IF str = <<>> THEN 0
    ELSE 10 * DecimalValue(SubSeq(str, 1, Len(str) - 1)) + DigitVal(str[Len(str)])

DigitChar(d) ==
    CASE d = 0 -> "0" [] d = 1 -> "1" [] d = 2 -> "2" [] d = 3 -> "3" [] d = 4 -> "4"
      [] d = 5 -> "5" [] d = 6 -> "6" [] d = 7 -> "7" [] d = 8 -> "8" [] d = 9 -> "9"

\* str(n) for n >= 0
RECURSIVE DecimalString(_)
DecimalString(n) ==
    IF n < 10 THEN <<DigitChar(n)>>
    ELSE DecimalString(n \div 10) \o <<DigitChar(n % 10)>>

\* The sidecar file is [exists, text]; text is what was written to it.
NoSidecar == [exists |-> FALSE, text |-> <<>>]

\* read_last_processed_position: int(text), 0 on FileNotFoundError or ValueError
read_last_processed_position(sidecar) ==
    IF ~sidecar.exists THEN 0
    ELSE IF sidecar.text # <<>> /\ \A i \in 1..Len(sidecar.text) : IsDigit(sidecar.text[i])
        THEN DecimalValue(sidecar.text)
        ELSE 0

write_last_processed_position(position) ==
    [exists |-> TRUE, text |-> DecimalString(position)]

\* f.tell() after the i-th line has been read
RECURSIVE LineEnd(_, _)
LineEnd(log, i) == IF i = 0 THEN 0 ELSE LineEnd(log, i - 1) + LineLen(log[i])

\* a loop that leaves last_position behind when max_entries cuts the call
RECURSIVE read_loop_stale_position_on_cut(_, _, _, _, _)
read_loop_stale_position_on_cut(log, i, new_entries, lp, max_entries) ==
    IF i > Len(log) THEN [entries |-> new_entries, last_position |-> lp]
    ELSE IF log[i].kind \in {"blank", "malformed", "partial"}
        THEN read_loop_stale_position_on_cut(log, i + 1, new_entries, lp, max_entries)
    ELSE IF Len(new_entries) + 1 >= max_entries
        THEN [entries |-> Append(new_entries, [data |-> log[i],
                                               end_position |-> LineEnd(log, i),
                                               lineno |-> i]),
              last_position |-> lp]
    ELSE read_loop_stale_position_on_cut(
             log, i + 1,
             Append(new_entries,
                    [data |-> log[i], end_position |-> LineEnd(log, i), lineno |-> i]),
             LineEnd(log, i), max_entries)

\* the readline loop from line i on; lp is self.last_position
RECURSIVE read_loop(_, _, _, _, _)
read_loop(log, i, new_entries, lp, max_entries) ==
    IF i > Len(log) THEN [entries |-> new_entries, last_position |-> lp]
    ELSE IF log[i].kind \in {"blank", "malformed", "partial"}
        THEN read_loop(log, i + 1, new_entries, lp, max_entries)
    ELSE LET pos == LineEnd(log, i)
             appended == Append(new_entries,
                                [data |-> log[i], end_position |-> pos, lineno |-> i])
         IN IF Len(appended) >= max_entries
               THEN [entries |-> appended, last_position |-> pos]
               ELSE read_loop(log, i + 1, appended, pos, max_entries)

\* first line that starts at or after byte offset pos (seek)
FirstLineFrom(log, pos) ==
    IF \E i \in 1..Len(log) : LineEnd(log, i - 1) >= pos
       THEN CHOOSE i \in 1..Len(log) :
                /\ LineEnd(log, i - 1) >= pos
                /\ \A j \in 1..(i - 1) : LineEnd(log, j - 1) < pos
       ELSE Len(log) + 1

\* a reader that starts over when the file ends before last_position
read_new_entries_from_start_when_short(log, lp, max_entries) ==
    IF LineEnd(log, Len(log)) < lp
       THEN read_loop(log, 1, <<>>, 0, max_entries)
       ELSE read_loop(log, FirstLineFrom(log, lp), <<>>, lp, max_entries)

\* a reader that forgets to seek to last_position
read_new_entries_without_seek(log, lp, max_entries) ==
    read_loop(log, 1, <<>>, lp, max_entries)

read_new_entries(log, lp, max_entries) ==
    read_loop(log, FirstLineFrom(log, lp), <<>>, lp, max_entries)

\* ------------------------------------------------ TapsFolder / HttpTapsFolder
\* A spool is the record [cache, request_id_to_file, to_remove, failed_to_load].
\* Dicts are functions on the set of their keys.
DictPut(d, k, v) == [x \in DOMAIN d \cup {k} |-> IF x = k THEN v ELSE d[x]]
DictDel(d, k) == [x \in DOMAIN d \ {k} |-> d[x]]
EmptyDict == [x \in {} |-> NONE]

\* the x-request-id header of the request (or response) of a parsed tap
extract_request_id_from_tap(data) == data.request_id

on_file_loaded(sp, filename, data) ==
    LET request_id == extract_request_id_from_tap(data)
    IN IF request_id # NONE
          THEN [sp EXCEPT !.request_id_to_file = DictPut(@, request_id, filename)]
          ELSE sp

\* a spool that counts every failure twice
try_load_file_counts_twice(sp, dir, filename) ==
    IF dir[filename] = "complete"
       THEN on_file_loaded([sp EXCEPT !.cache = DictPut(@, filename, TapContent(filename))],
                           filename, TapContent(filename))
       ELSE LET failures == sp.failed_to_load[filename] + 2
                counted == [sp EXCEPT !.failed_to_load[filename] = failures]
            IN IF failures >= max_load_retries
                  THEN [counted EXCEPT !.to_remove = @ \cup {filename}]
                  ELSE counted

\* a spool that gives up one failure too late (> instead of >=)
try_load_file_late_give_up(sp, dir, filename) ==
    IF dir[filename] = "complete"
       THEN on_file_loaded([sp EXCEPT !.cache = DictPut(@, filename, TapContent(filename))],
                           filename, TapContent(filename))
       ELSE LET failures == sp.failed_to_load[filename] + 1
                counted == [sp EXCEPT !.failed_to_load[filename] = failures]
            IN IF failures > max_load_retries
                  THEN [counted EXCEPT !.to_remove = @ \cup {filename}]
                  ELSE counted

\* json.load succeeds only on a file the proxy has written completely
try_load_file(sp, dir, filename) ==
    IF dir[filename] = "complete"
       THEN on_file_loaded([sp EXCEPT !.cache = DictPut(@, filename, TapContent(filename))],
                           filename, TapContent(filename))
       ELSE LET failures == sp.failed_to_load[filename] + 1
                counted == [sp EXCEPT !.failed_to_load[filename] = failures]
            IN IF failures >= max_load_retries
                  THEN [counted EXCEPT !.to_remove = @ \cup {filename}]
                  ELSE counted

\* a scan that leaves files that are not .json alone
RECURSIVE refresh_loop_keeps_other_files(_, _, _, _)
refresh_loop_keeps_other_files(sp, dir, order, i) ==
    IF i > Len(order) THEN sp
    ELSE LET name == order[i]
         IN IF dir[name] \notin {"partial", "complete"}
               THEN refresh_loop_keeps_other_files(sp, dir, order, i + 1)
            ELSE IF name \in DOMAIN sp.cache \/ name \in sp.to_remove
               THEN refresh_loop_keeps_other_files(sp, dir, order, i + 1)
            ELSE IF endswith_json(name)
               THEN refresh_loop_keeps_other_files(try_load_file(sp, dir, name), dir, order,
                                                   i + 1)
            ELSE refresh_loop_keeps_other_files(sp, dir, order, i + 1)

\* the scandir loop over the directory entries, in the order the OS yields them
RECURSIVE refresh_loop(_, _, _, _)
refresh_loop(sp, dir, order, i) ==
    IF i > Len(order) THEN sp
    ELSE LET name == order[i]
         IN IF dir[name] \notin {"partial", "complete"}
               THEN refresh_loop(sp, dir, order, i + 1)
            ELSE IF name \in DOMAIN sp.cache \/ name \in sp.to_remove
               THEN refresh_loop(sp, dir, order, i + 1)
            ELSE IF endswith_json(name)
               THEN refresh_loop(try_load_file(sp, dir, name), dir, order, i + 1)
            ELSE refresh_loop([sp EXCEPT !.to_remove = @ \cup {name}], dir, order, i + 1)

refresh(sp, dir, order) == refresh_loop(sp, dir, order, 1)

pop_tap_filename_by_request_id(sp, request_id) ==
    IF request_id \in DOMAIN sp.request_id_to_file
       THEN [name |-> sp.request_id_to_file[request_id],
             sp |-> [sp EXCEPT !.request_id_to_file = DictDel(@, request_id)]]
       ELSE [name |-> NONE, sp |-> sp]

\* a pop that does not schedule the file for removal
pop_filename_without_removal(sp, filename) ==
    LET data == IF filename \in DOMAIN sp.cache THEN sp.cache[filename] ELSE NoData
    IN [data |-> data, sp |-> [sp EXCEPT !.cache = DictDel(@, filename)]]

pop_filename(sp, filename) ==
    LET data == IF filename \in DOMAIN sp.cache THEN sp.cache[filename] ELSE NoData
        popped == [sp EXCEPT !.cache = DictDel(@, filename)]
    IN [data |-> data,
        sp |-> IF Truthy(data) THEN [popped EXCEPT !.to_remove = @ \cup {filename}]
                               ELSE popped]

\* a cleanup that clears the whole cache
cleanup_spool_clears_cache(sp) ==
    [sp EXCEPT !.cache = EmptyDict,
               !.failed_to_load = [x \in Files |-> IF x \in sp.to_remove THEN 0 ELSE @[x]],
               !.to_remove = {}]

\* cleanup: the spool afterwards, and the directory afterwards
cleanup_spool(sp) ==
    [sp EXCEPT !.cache = [x \in DOMAIN sp.cache \ sp.to_remove |-> sp.cache[x]],
               !.failed_to_load = [x \in Files |-> IF x \in sp.to_remove THEN 0 ELSE @[x]],
               !.to_remove = {}]

cleanup_dir(sp, dir) ==
    [x \in Files |-> IF x \in sp.to_remove /\ dir[x] \in {"partial", "complete"}
                        THEN "removed" ELSE dir[x]]

\* ------------------------------------------------------------------ parsing
\* str.rfind(":"), 1-based; 0 stands for Python's -1
rfind_colon(str) ==
    IF \E i \in 1..Len(str) : str[i] = ":"
       THEN CHOOSE i \in 1..Len(str) :
                str[i] = ":" /\ \A j \in (i + 1)..Len(str) : str[j] # ":"
       ELSE 0

try_get_port_from_upstream_host(upstream_host) ==
    IF upstream_host = <<>> THEN NoPort
    ELSE LET loc == rfind_colon(upstream_host)
         IN IF loc = 0 THEN NoPort
            ELSE LET port_str == SubSeq(upstream_host, loc + 1, Len(upstream_host))
                 IN IF port_str # <<>> /\ \A i \in 1..Len(port_str) : IsDigit(port_str[i])
                       THEN DecimalValue(port_str)
                       ELSE NoPort

\* Python truthiness of "port": None and 0 are falsy
PortKnown(port) == port # NoPort /\ port # 0

\* urlparse(full_path).path: what precedes the first "?" or "#"
urlparse_path(full_path) ==
    IF \E i \in 1..Len(full_path) : full_path[i] \in {"?", "#"}
       THEN LET cut == CHOOSE i \in 1..Len(full_path) :
                           /\ full_path[i] \in {"?", "#"}
                           /\ \A j \in 1..(i - 1) : full_path[j] \notin {"?", "#"}
            IN SubSeq(full_path, 1, cut - 1)
       ELSE full_path

\* find_body_flags: the offsets of the matches of flag_format, in order
RECURSIVE find_body_flags(_, _)
find_body_flags(body, from) ==
    IF from > Len(body) THEN <<>>
    ELSE IF body[from] = "F"
        THEN <<from - 1>> \o find_body_flags(body, from + 1)
        ELSE find_body_flags(body, from + 1)

\* -------------------------------------------------------------------- Store
EmptyStore ==
    [http_request |-> <<>>, http_response |-> <<>>, http_header |-> <<>>, flag |-> <<>>,
     alert |-> <<>>, service_stats |-> EmptyDict, http_response_code_stats |-> EmptyDict,
     http_path_stats |-> EmptyDict,
     http_path_time_stats |-> EmptyDict, http_request_time_stats |-> EmptyDict]

\* ServiceStatsTable: the UPDATE statement and the number of rows it changed
service_stats_update(table, inc) ==
    IF inc.port \in DOMAIN table
       THEN [table |-> [table EXCEPT ![inc.port] =
                          [total_requests |-> @.total_requests + inc.total_requests,
                           total_blocked_requests |->
                               @.total_blocked_requests + inc.total_blocked_requests,
                           total_responses |-> @.total_responses + inc.total_responses,
                           total_flags_written |->
                               @.total_flags_written + inc.total_flags_written,
                           total_flags_retrieved |->
                               @.total_flags_retrieved + inc.total_flags_retrieved]],
             rowcount |-> 1]
       ELSE [table |-> table, rowcount |-> 0]

service_stats_insert(table, port) ==
    DictPut(table, port,
            [total_requests |-> 0, total_blocked_requests |-> 0, total_responses |-> 0,
             total_flags_written |-> 0, total_flags_retrieved |-> 0])

service_stats_increment(table, inc) ==
    LET first == service_stats_update(table, inc)
    IN IF first.rowcount = 0
          THEN service_stats_update(service_stats_insert(table, inc.port), inc).table
          ELSE first.table

\* increment that reports every row as new
http_path_stats_increment_always_new(table, port, path, count) ==
    [table |-> IF <<port, path>> \in DOMAIN table
                  THEN [table EXCEPT ![<<port, path>>] = @ + count]
                  ELSE DictPut(table, <<port, path>>, count),
     status |-> "new"]

\* HttpPathStatsTable.increment: the table afterwards and the RowStatus
http_path_stats_increment(table, port, path, count) ==
    IF <<port, path>> \in DOMAIN table
       THEN [table |-> [table EXCEPT ![<<port, path>>] = @ + count], status |-> "updated"]
       ELSE [table |-> DictPut(table, <<port, path>>, count), status |-> "new"]

\* ------------------------------------------------- HttpTapProcessor.process_tap
\* tx is the Store as the open transaction sees it.  fail names the write at
\* which the Store raises; the writes made before it stay in tx.  The result
\* of each stage is [tx, raised].

\* the names of request.headers of a tap (the taps carry no response headers;
\* x-blocked is a request trailer)
tap_request_headers(data) ==
    (IF data.request_id # NONE THEN <<"x-request-id">> ELSE <<>>)
    \o (IF data.path_header # <<>> THEN <<":path">> ELSE <<>>)

\* int(status_str) if status_str and str(status_str).isdigit() else -1: the
\* log entries and taps carry no status
NoStatus == -1

\* HttpResponseCodeStatsTable.increment: UPDATE, INSERT when no row changed
http_response_code_stats_increment(table, port, status_code, count) ==
    IF <<port, status_code>> \in DOMAIN table
       THEN [table EXCEPT ![<<port, status_code>>] = @ + count]
       ELSE DictPut(table, <<port, status_code>>, count)

\* http_requests.insert, http_responses.insert, http_headers.insert_many,
\* flags.insert_many
insert_request_rows(tx, data, tap_id, batch_id, full_path, port, start_time) ==
    LET request_id == Len(tx.http_request) + 1
        response_id == Len(tx.http_response) + 1
        written == find_body_flags(data.req_body, 1)
        retrieved == find_body_flags(data.resp_body, 1)
    IN [tx EXCEPT
          !.http_request = Append(@,
              [id |-> request_id, port |-> IF PortKnown(port) THEN port ELSE 0,
               start_time |-> convert_datetime_to_timestamp(start_time),
               path |-> full_path, is_blocked |-> data.x_blocked,
               tap_id |-> tap_id, batch_id |-> batch_id]),
          !.http_response = Append(@, [id |-> response_id, request_id |-> request_id]),
          !.http_header = @ \o [i \in 1..Len(tap_request_headers(data)) |->
                                  [request_id |-> request_id, response_id |-> 0,
                                   name |-> tap_request_headers(data)[i]]],
          !.flag = @ \o [i \in 1..Len(written) |->
                           [http_request_id |-> request_id, http_response_id |-> 0,
                            offset |-> written[i]]]
                     \o [i \in 1..Len(retrieved) |->
                           [http_request_id |-> 0, http_response_id |-> response_id,
                            offset |-> retrieved[i]]]]

\* a blocked request counted as answered as well
increment_service_stats_counts_response(tx, data, port) ==
    [tx EXCEPT !.http_response_code_stats =
                  http_response_code_stats_increment(@, port, NoStatus, 1),
               !.service_stats = service_stats_increment(@,
        [port |-> port,
         total_requests |-> 1,
         total_responses |-> 1,
         total_blocked_requests |-> IF data.x_blocked THEN 1 ELSE 0,
         total_flags_written |-> Len(find_body_flags(data.req_body, 1)),
         total_flags_retrieved |-> Len(find_body_flags(data.resp_body, 1))])]

\* service_stats.increment, http_response_code_stats.increment
increment_service_stats(tx, data, port) ==
    [tx EXCEPT !.http_response_code_stats =
                  http_response_code_stats_increment(@, port, NoStatus, 1),
               !.service_stats = service_stats_increment(@,
        [port |-> port,
         total_requests |-> 1,
         total_responses |-> IF data.x_blocked THEN 0 ELSE 1,
         total_blocked_requests |-> IF data.x_blocked THEN 1 ELSE 0,
         total_flags_written |-> Len(find_body_flags(data.req_body, 1)),
         total_flags_retrieved |-> Len(find_body_flags(data.resp_body, 1))])]

\* http_path_stats.increment: the transaction afterwards and the RowStatus
increment_path_stats(tx, port, path) ==
    LET path_stats_result == http_path_stats_increment(tx.http_path_stats, port, path, 1)
    IN [tx |-> [tx EXCEPT !.http_path_stats = path_stats_result.table],
        status |-> path_stats_result.status]

\* alerts.insert for the request and response inserted last
insert_alert(tx, port, full_path) ==
    [tx EXCEPT !.alert = Append(@,
        [port |-> port, description |-> full_path,
         http_request_id |-> Len(tx.http_request),
         http_response_id |-> Len(tx.http_response)])]

\* HttpPathTimeStatsTable.increment: UPDATE count = count + ?, INSERT when no
\* row was changed; the table afterwards and the RowStatus
http_path_time_stats_increment(table, key, count) ==
    IF key \in DOMAIN table
       THEN [table |-> [table EXCEPT ![key] = @ + count], status |-> "updated"]
       ELSE [table |-> DictPut(table, key, count), status |-> "new"]

\* http_path_time_stats.increment for a port without ignore_path_stats rules
increment_path_time_stats(tx, port, path, start_minute_ts) ==
    [tx EXCEPT !.http_path_time_stats =
        http_path_time_stats_increment(@, <<port, path, start_minute_ts>>, 1).table]

\* from "if path_stats_result == RowStatus.NEW" to the end of process_tap
process_tap_from_alert(pathed, port, full_path, start_minute_ts, fail) ==
    IF fail = "alerts" /\ pathed.status = "new"
       THEN [tx |-> pathed.tx, raised |-> TRUE]
       ELSE [tx |-> increment_path_time_stats(
                        IF pathed.status = "new"
                           THEN insert_alert(pathed.tx, port, full_path)
                           ELSE pathed.tx,
                        port, urlparse_path(full_path), start_minute_ts),
             raised |-> fail = "tail"]

\* the "if port:" block entered for every port
process_tap_from_stats_any_port(rows, data, port, full_path, start_minute_ts, fail) ==
    IF fail = "service_stats" THEN [tx |-> rows, raised |-> TRUE]
    ELSE process_tap_from_alert(
             increment_path_stats(increment_service_stats(rows, data, port), port,
                                  urlparse_path(full_path)),
             port, full_path, start_minute_ts, fail)

\* from "if port:" to the end of process_tap
process_tap_from_stats(rows, data, port, full_path, start_minute_ts, fail) ==
    IF ~PortKnown(port) THEN [tx |-> rows, raised |-> FALSE]
    ELSE IF fail = "service_stats" THEN [tx |-> rows, raised |-> TRUE]
    ELSE process_tap_from_alert(
             increment_path_stats(increment_service_stats(rows, data, port), port,
                                  urlparse_path(full_path)),
             port, full_path, start_minute_ts, fail)

\* from the first Store write to the end of process_tap
process_tap_from_insert(tx, data, tap_id, batch_id, full_path, port, start_time, fail) ==
    IF fail = "http_requests" THEN [tx |-> tx, raised |-> TRUE]
    ELSE process_tap_from_stats(
             insert_request_rows(tx, data, tap_id, batch_id, full_path, port, start_time),
             data, port, full_path,
             convert_datetime_to_timestamp(replace_second_zero(start_time)), fail)

process_tap(tx, data, tap_id, batch_id, log_entry, fail) ==
    process_tap_from_insert(
        tx, data, tap_id, batch_id,
        IF log_entry.path # <<>> THEN log_entry.path ELSE data.path_header,
        try_get_port_from_upstream_host(log_entry.upstream_host),
        log_entry.start_time,
        fail)

\* ------------------------------ HttpProcessor.process_new_access_log_entries
\* acc carries the spool, the transaction, the to_archive dict, whether an
\* exception left the loop, and what was observed: the lines that matched a
\* tap, the taps taken from the spool, the taps whose processing raised.

\* a loop body without the except block: the exception of process_tap leaves the loop
take_tap_reraises(acc, entry, tap_filename, popped, done) ==
    [acc EXCEPT !.sp = popped.sp,
                !.tx = done.tx,
                !.to_archive = DictPut(@, tap_filename, popped.data),
                !.matched = @ \cup {entry.lineno},
                !.consumed = @ \cup {tap_filename},
                !.errors = IF done.raised THEN @ \cup {tap_filename} ELSE @,
                !.raised = @ \/ done.raised]

\* to_archive[tap_filename] = tap_data, then the try block around process_tap
take_tap(acc, entry, tap_filename, popped, done) ==
    [acc EXCEPT !.sp = popped.sp,
                !.tx = done.tx,
                !.to_archive = DictPut(@, tap_filename, popped.data),
                !.matched = @ \cup {entry.lineno},
                !.consumed = @ \cup {tap_filename},
                !.errors = IF done.raised THEN @ \cup {tap_filename} ELSE @]

\* from pop_filename to the end of the loop body
pop_and_process(acc, entry, by_id, popped, batch_id, fail) ==
    IF ~Truthy(popped.data)
       THEN [acc EXCEPT !.sp = popped.sp]
       ELSE take_tap(acc, entry, by_id.name, popped,
                     process_tap(acc.tx, popped.data, by_id.name, batch_id, entry.data,
                                 fail))

\* from pop_tap_filename_by_request_id to the end of the loop body
match_and_process(acc, entry, by_id, batch_id, failAt) ==
    IF by_id.name = NONE THEN acc
    ELSE pop_and_process(acc, entry, by_id, pop_filename(by_id.sp, by_id.name), batch_id,
                         failAt[by_id.name])

\* the for loop over new_entries
RECURSIVE entries_loop(_, _, _, _, _)
entries_loop(new_entries, i, acc, batch_id, failAt) ==
    IF i > Len(new_entries) THEN acc
    ELSE IF new_entries[i].data.kind # "object" THEN [acc EXCEPT !.raised = TRUE]
    ELSE entries_loop(
             new_entries, i + 1,
             IF new_entries[i].data.stream_id = NONE THEN acc
             ELSE match_and_process(
                      acc, new_entries[i],
                      pop_tap_filename_by_request_id(acc.sp,
                                                     new_entries[i].data.stream_id),
                      batch_id, failAt),
             batch_id, failAt)

\* an ingest that writes the reader's position in every call that did not raise
finish_ingest_always_writes_position(dir, sidecar, rd, refreshed, tx, looped) ==
    [sp |-> IF looped.raised THEN looped.sp ELSE cleanup_spool(looped.sp),
     dir |-> IF looped.raised THEN dir ELSE cleanup_dir(looped.sp, dir),
     pos_file |-> IF ~looped.raised
                     THEN write_last_processed_position(rd.last_position)
                     ELSE sidecar,
     last_position |-> rd.last_position,
     tx |-> looped.tx,
     to_archive |-> IF looped.raised THEN EmptyDict ELSE looped.to_archive,
     raised |-> looped.raised,
     seen |-> [new_entries |-> rd.entries, refreshed |-> refreshed,
               matched |-> looped.matched, consumed |-> looped.consumed,
               errors |-> looped.errors]]

\* an ingest that writes the position of the entries read even when the loop raised
finish_ingest_writes_position_on_abort(dir, sidecar, rd, refreshed, tx, looped) ==
    [sp |-> IF looped.raised THEN looped.sp ELSE cleanup_spool(looped.sp),
     dir |-> IF looped.raised THEN dir ELSE cleanup_dir(looped.sp, dir),
     pos_file |-> IF rd.entries # <<>>
                     THEN write_last_processed_position(
                              rd.entries[Len(rd.entries)].end_position)
                     ELSE sidecar,
     last_position |-> rd.last_position,
     tx |-> looped.tx,
     to_archive |-> IF looped.raised THEN EmptyDict ELSE looped.to_archive,
     raised |-> looped.raised,
     seen |-> [new_entries |-> rd.entries, refreshed |-> refreshed,
               matched |-> looped.matched, consumed |-> looped.consumed,
               errors |-> looped.errors]]

\* after the loop: write the position, cleanup(), return to_archive; a call
\* that raised in the loop does none of these
finish_ingest(dir, sidecar, rd, refreshed, tx, looped) ==
    [sp |-> IF looped.raised THEN looped.sp ELSE cleanup_spool(looped.sp),
     dir |-> IF looped.raised THEN dir ELSE cleanup_dir(looped.sp, dir),
     pos_file |-> IF ~looped.raised /\ rd.entries # <<>>
                     THEN write_last_processed_position(
                              rd.entries[Len(rd.entries)].end_position)
                     ELSE sidecar,
     last_position |-> rd.last_position,
     tx |-> looped.tx,
     to_archive |-> IF looped.raised THEN EmptyDict ELSE looped.to_archive,
     raised |-> looped.raised,
     seen |-> [new_entries |-> rd.entries, refreshed |-> refreshed,
               matched |-> looped.matched, consumed |-> looped.consumed,
               errors |-> looped.errors]]

\* from "to_archive = {}" to the return
process_entries(dir, sidecar, rd, refreshed, tx, batch_id, failAt) ==
    finish_ingest(dir, sidecar, rd, refreshed, tx,
                  entries_loop(rd.entries, 1,
                               [sp |-> refreshed, tx |-> tx, to_archive |-> EmptyDict,
                                raised |-> FALSE, matched |-> {}, consumed |-> {},
                                errors |-> {}],
                               batch_id, failAt))

\* One call.  The result holds the state the call leaves behind (sp, dir,
\* pos_file, last_position, tx), what it returns (to_archive), whether it
\* raised, and in seen what was observed on the way.
process_new_access_log_entries(sp, dir, log, lp, sidecar, tx, batch_id, order, failAt) ==
    process_entries(dir, sidecar, read_new_entries(log, lp, ingest_max_entries),
                    refresh(sp, dir, order), tx, batch_id, failAt)

\* ----------------------------------------------------------------- actions
EmptySpool ==
    [cache |-> EmptyDict, request_id_to_file |-> EmptyDict, to_remove |-> {},
     failed_to_load |-> [x \in Files |-> 0]]

Spool ==
    [cache |-> cache, request_id_to_file |-> request_id_to_file, to_remove |-> to_remove,
     failed_to_load |-> failed_to_load]

Present(dir) == {x \in Files : dir[x] \in {"partial", "complete"}}

\* os.scandir yields the entries in arbitrary order
ScanOrders ==
    { <<"junk.tmp", "t1.json", "t2.json", "t3.json", "t4.json">>,
      <<"t4.json", "t3.json", "t2.json", "t1.json", "junk.tmp">> }

\* the TCP tap processor before its first tap
EmptyTcpStore ==
    [tcp_connection |-> <<>>, tcp_event |-> <<>>, flag |-> <<>>,
     service_stats |-> EmptyDict, tcp_connection_stats |-> EmptyDict,
     tcp_connection_time_stats |-> EmptyDict]

TcpEvent(kind, data) == [kind |-> kind, data |-> data]
TcpLogEntry(host, bytes_in, bytes_out, start_time_ts) ==
    [upstream_host |-> host, bytes_in |-> bytes_in, bytes_out |-> bytes_out,
     start_time_ts |-> start_time_ts]

NoTcpTap == [events |-> <<>>]
TcpInit == [store |-> EmptyTcpStore, taps |-> 0, data |-> NoTcpTap,
            log_entry |-> TcpLogEntry(<<>>, 0, 0, 0)]

\* the state of POST /api/sql before the first request
\* The timeout execute_sql is called with: a number of seconds or None.
Seconds(number) == [kind |-> "number", number |-> number]
NoTimeout == [kind |-> "None", number |-> 0]

Answer(status, error, rows) == [status |-> status, error |-> error, rows |-> rows]
NoAnswer == Answer(0, "none", -1)

SqlIdle ==
    [calls |-> 0, table_rows |-> default_limit + 1, main |-> "idle", worker |-> "none",
     conn |-> "none", interrupted |-> FALSE, results |-> -1, exception |-> "none",
     request |-> <<>>, query |-> <<>>, timeout |-> NoTimeout, at_timeout |-> "none",
     answer |-> NoAnswer]

\* ------------------------------------------- HttpTapProcessor, state record
\* db is the Store the transaction writes; session_calls the arguments of the
\* sessions.add_request calls; ingests what process_tap was called with and
\* whether it raised (observed, not program state).
HttpInit == [db |-> EmptyStore, session_calls |-> <<>>, ingests |-> <<>>]

\* BatchProcessor after __init__, before process_taps: an empty tap folder,
\* no log entries read, no archive, the clock at its first reading
BatchTaps == <<"a.json", "b.json">>
NotIgnored == -1
\* the readings of the wall clock, in seconds
BatchTimes == <<0, 60, 61>>
BatchInit ==
    [pc |-> "while", running |-> TRUE, shutdown_event |-> FALSE,
     next_batch_count |-> 1, batch_ids |-> <<>>, batch_id |-> <<0, 0>>,
     tap_files |-> <<>>, clock |-> 0, clock_changes |-> 0,
     written |-> <<>>, content |-> [t \in {BatchTaps[i] : i \in 1..Len(BatchTaps)} |-> "none"],
     entries |-> {},
     ignored_taps |-> [t \in {BatchTaps[i] : i \in 1..Len(BatchTaps)} |-> NotIgnored],
     rows |-> [t \in {BatchTaps[i] : i \in 1..Len(BatchTaps)} |-> 0],
     archives |-> <<>>,
     signalled |-> FALSE, signal_pc |-> "none", created_after_signal |-> 0,
     last_skipped |-> {}, last_processed |-> <<>>, last_timed_out |-> {},
     batch_raised |-> FALSE]
\* one Config after __init__: no watcher yet, both calling threads idle
Caller(pc, w) == [pc |-> pc, w |-> w]
WatchingInit ==
    [ref |-> 0, watchers |-> <<>>, callers |-> <<Caller("idle", 0), Caller("idle", 0)>>,
     calls |-> 0, overlapped |-> FALSE, returned |-> 0, stopped |-> 0, noop |-> FALSE]
\* the configuration file, its backups and the live config after init_app:
\* the file is valid, Config.__init__ has loaded it, the watcher has not
\* looked yet (_cached_stamp = 0)
ContentA == "api_token_hash: a"
ConfigFile(content, mtime) == [content |-> content, mtime |-> mtime]
ConfigModel(api_token_hash, services) ==
    [valid |-> TRUE, api_token_hash |-> api_token_hash, services |-> services]
ConfInit ==
    [clock |-> 1, file |-> ConfigFile(ContentA, 1), backups |-> <<>>,
     live |-> ConfigModel("a", 0),
     watcher |-> [pc |-> "sleep", cached_stamp |-> 0, read |-> ""],
     writes |-> 0, saves |-> 0,
     op |-> "none", ok |-> FALSE, content |-> "", create_backup |-> FALSE]
\* the API middleware before init_app: config is None
NoConfig == [loaded |-> FALSE, api_token_hash |-> <<>>]
Header(present, value) == [present |-> present, value |-> value]
AuthInit ==
    [config |-> NoConfig, requests |-> 0, path |-> <<>>, header |-> Header(FALSE, <<>>),
     status |-> 0, handled |-> FALSE]
NoRun ==
    [batch_id |-> 0, new_entries |-> <<>>, listing |-> {}, refreshed |-> EmptySpool,
     matched |-> {}, consumed |-> {}, errors |-> {}, to_archive |-> {}, removed |-> {},
     raised |-> FALSE, committed |-> FALSE, archive_written |-> FALSE, passed |-> 0,
     log_len |-> 0, dir_after |-> [x \in Files |-> "absent"], idle |-> FALSE]

\* the sidecar found at the first start: none, or one left empty by a write
\* that was cut after open(..., "w")
TruncatedSidecar == [exists |-> TRUE, text |-> <<>>]
InitialSidecars == <<NoSidecar, TruncatedSidecar>>

Init ==
    /\ tap_dir = [x \in Files |-> "absent"]
    /\ access_log = <<>>
    /\ \E i \in 1..Len(InitialSidecars) : pos_file = InitialSidecars[i]
    /\ last_position = read_last_processed_position(pos_file)
    /\ cache = EmptyDict
    /\ request_id_to_file = EmptyDict
    /\ to_remove = {}
    /\ failed_to_load = [x \in Files |-> 0]
    /\ db = EmptyStore
    /\ archives = {}
    /\ next_batch_count = 1
    /\ restarts = 0
    /\ last_run = NoRun
    /\ lost = {}
    /\ unmatched = {}
    /\ given_up = {}
    /\ tail = [returned |-> <<>>, calls |-> 0, max_entries |-> 0, file_len |-> 0]
    /\ tcp = TcpInit
    /\ session_db = [session |-> EmptyDict, session_link |-> {}, calls |-> 0]
    /\ session_storage = [requests |-> EmptyDict, request_sessions |-> EmptyDict,
                          response_sessions |-> EmptyDict, added |-> <<>>,
                          links |-> <<>>, asked |-> <<0, 0>>]
    /\ counters = [service_stats |-> EmptyDict, http_path_stats |-> EmptyDict,
                   http_path_time_stats |-> EmptyDict,
                   tcp_connection_stats |-> EmptyDict,
                   calls |-> 0, table |-> "none", key |-> <<>>, delta |-> 0]
    /\ sql = SqlIdle
    /\ auth = AuthInit
    /\ conf = ConfInit
    /\ watching = WatchingInit
    /\ batch = BatchInit
    /\ http = HttpInit

\* the proxy creates a tap file; it may not be flushed completely yet
ProxyWritesTap(names, contents) ==
    /\ \E i \in 1..Len(names), j \in 1..Len(contents) :
          /\ tap_dir[names[i]] = "absent"
          /\ names[i] \in OtherFiles => contents[j] = "complete"
          /\ tap_dir' = [tap_dir EXCEPT ![names[i]] = contents[j]]
    /\ UNCHANGED <<access_log, pos_file, last_position, cache, request_id_to_file,
                   to_remove, failed_to_load, db, archives, next_batch_count,
                   restarts, last_run, lost, unmatched, given_up>>
    /\ UNCHANGED component_vars

ProxyCompletesTap ==
    /\ \E name \in JsonFiles :
          /\ tap_dir[name] = "partial"
          /\ tap_dir' = [tap_dir EXCEPT ![name] = "complete"]
    /\ UNCHANGED <<access_log, pos_file, last_position, cache, request_id_to_file,
                   to_remove, failed_to_load, db, archives, next_batch_count,
                   restarts, last_run, lost, unmatched, given_up>>
    /\ UNCHANGED component_vars

ProxyAppendsLogLine(menu) ==
    /\ Len(access_log) < MaxLogLines
    /\ \E i \in 1..Len(menu) : access_log' = Append(access_log, menu[i])
    /\ UNCHANGED <<tap_dir, pos_file, last_position, cache, request_id_to_file,
                   to_remove, failed_to_load, db, archives, next_batch_count,
                   restarts, last_run, lost, unmatched, given_up>>
    /\ UNCHANGED component_vars

\* the taps that the entries read in this cycle can match
Candidates(refreshed, new_entries) ==
    { refreshed.request_id_to_file[new_entries[i].data.stream_id] :
        i \in { j \in 1..Len(new_entries) :
                  new_entries[j].data.stream_id \in DOMAIN refreshed.request_id_to_file } }

\* One pass of the BatchRunner loop over the HTTP ingest: a batch id, one
\* Store transaction around the ingest (committed when the ingest returns,
\* rolled back when it raises), then one archive of the returned taps.
\* keep: the files for which the os.remove of cleanup() raised; remove_fails
\* tells whether there is any.
Cycle(remove_fails) ==
    /\ \E order \in ScanOrders, archive_ok \in BOOLEAN :
        \E failing \in [Candidates(refresh(Spool, tap_dir, order),
                                    read_new_entries(access_log, last_position,
                                                     ingest_max_entries).entries)
                         -> FailPoints] :
          \E r \in {process_new_access_log_entries(
                        Spool, tap_dir, access_log, last_position, pos_file, db,
                        next_batch_count, order,
                        [x \in Files |-> IF x \in DOMAIN failing THEN failing[x]
                                                                ELSE "none"])} :
           \E keep \in SUBSET (Present(tap_dir) \ Present(r.dir)) :
             /\ remove_fails <=> keep # {}
             /\ (DOMAIN r.to_archive = {} => archive_ok)
             /\ tap_dir' = [x \in Files |-> IF x \in keep THEN tap_dir[x] ELSE r.dir[x]]
             /\ pos_file' = r.pos_file
             /\ last_position' = r.last_position
             /\ cache' = r.sp.cache
             /\ request_id_to_file' = r.sp.request_id_to_file
             /\ to_remove' = r.sp.to_remove
             /\ failed_to_load' = r.sp.failed_to_load
             /\ db' = IF r.raised THEN db ELSE r.tx
             /\ archives' = IF DOMAIN r.to_archive # {} /\ archive_ok
                               THEN archives \cup {[batch_id |-> next_batch_count,
                                                    members |-> DOMAIN r.to_archive]}
                               ELSE archives
             /\ next_batch_count' = next_batch_count + 1
             /\ last_run' = [batch_id |-> next_batch_count,
                             new_entries |-> r.seen.new_entries,
                             listing |-> Present(tap_dir),
                             refreshed |-> r.seen.refreshed,
                             matched |-> r.seen.matched,
                             consumed |-> r.seen.consumed,
                             errors |-> r.seen.errors,
                             to_archive |-> DOMAIN r.to_archive,
                             removed |-> (Present(tap_dir) \ Present(r.dir)) \ keep,
                             raised |-> r.raised,
                             committed |-> ~r.raised,
                             archive_written |-> DOMAIN r.to_archive # {} /\ archive_ok,
                             passed |-> IF r.raised \/ r.seen.new_entries = <<>>
                                           THEN last_run.passed
                                           ELSE r.seen.new_entries[
                                                    Len(r.seen.new_entries)].lineno,
                             log_len |-> Len(access_log),
                             dir_after |-> [x \in Files |-> IF x \in keep THEN tap_dir[x]
                                                                         ELSE r.dir[x]],
                             idle |-> /\ last_run.batch_id > 0
                                      /\ Len(access_log) = last_run.log_len
                                      /\ tap_dir = last_run.dir_after]
             /\ lost' = IF r.raised THEN lost
                        ELSE lost \cup ({r.seen.new_entries[i].lineno :
                                           i \in 1..Len(r.seen.new_entries)}
                                        \ r.seen.matched)
             /\ unmatched' = unmatched \cup ({r.seen.new_entries[i].lineno :
                                                  i \in 1..Len(r.seen.new_entries)}
                                               \ r.seen.matched)
             /\ given_up' = given_up \cup
                    {x \in JsonFiles :
                        r.seen.refreshed.failed_to_load[x] >= max_load_retries}
    /\ UNCHANGED <<access_log, restarts>>
    /\ UNCHANGED component_vars

\* a cycle in which cleanup() deleted every file it was to delete
RunCycle ==
    /\ next_batch_count <= MaxBatches
    /\ Cycle(FALSE)

\* a cycle in which os.remove raised for a file: cleanup() logs the error,
\* forgets the file and goes on
RunCycleRemoveFails ==
    /\ next_batch_count <= MaxBatches
    /\ Cycle(TRUE)

\* the ingest process is restarted: HttpProcessor.__init__
Restart ==
    /\ restarts < MaxRestarts
    /\ restarts' = restarts + 1
    /\ last_position' = read_last_processed_position(pos_file)
    /\ cache' = EmptyDict
    /\ request_id_to_file' = EmptyDict
    /\ to_remove' = {}
    /\ failed_to_load' = [x \in Files |-> 0]
    /\ given_up' = {}
    /\ UNCHANGED <<tap_dir, access_log, pos_file, db, archives, next_batch_count, last_run,
                   lost, unmatched>>
    /\ UNCHANGED component_vars

\* The ingest under traffic: complete taps t1 and t2, any access-log line.
WriteTap == ProxyWritesTap(<<"t1.json", "t2.json">>, <<"complete">>)
AppendLogLine == ProxyAppendsLogLine(<<LineR1, LineR2, LineMalformed, LineNonObject>>)

Next ==
    \/ WriteTap
    \/ AppendLogLine
    \/ RunCycle
    \/ Restart

Spec == Init /\ [][Next]_vars

\* The ingest on a tap directory whose files cannot always be deleted.  The
\* proxy names every tap after a fresh id: it never writes a name that is in
\* the Store or in an archive.
Ingested(name) ==
    \/ \E i \in 1..Len(db.http_request) : db.http_request[i].tap_id = name
    \/ \E a \in archives : name \in a.members
FreshTapNames == SelectSeq(<<"t1.json", "t2.json">>, LAMBDA name : ~Ingested(name))
WriteFreshTap == ProxyWritesTap(FreshTapNames, <<"complete">>)
AppendDuplicateLogLine == ProxyAppendsLogLine(<<LineR1, LineR2>>)

NextUndeleted ==
    \/ WriteFreshTap
    \/ AppendDuplicateLogLine
    \/ RunCycle
    \/ RunCycleRemoveFails
    \/ Restart

SpecUndeleted == Init /\ [][NextUndeleted]_vars

\* The spool over one lifetime of the ingest process: taps that are not
\* flushed yet, two taps with one request id, a tap without a request id, a
\* non-.json file.
WriteUnflushedTap == ProxyWritesTap(<<"t1.json">>, <<"partial">>)
WriteSpoolFile == ProxyWritesTap(<<"t3.json", "t4.json", "junk.tmp">>, <<"complete">>)
AppendSpoolLogLine == ProxyAppendsLogLine(<<LineR1, LineNonObject>>)

NextSpool ==
    \/ WriteUnflushedTap
    \/ WriteSpoolFile
    \/ ProxyCompletesTap
    \/ AppendSpoolLogLine
    \/ RunCycle

SpecSpool == Init /\ [][NextSpool]_vars

\* ------------------------------------------------ the access-log tail alone
\* One AccessLogReader on an append-only log: the proxy appends lines (an
\* entry, a blank line, a line that is not JSON, or the first part of an
\* entry that it completes later) and the reader is called with max_entries
\* 1..MaxTailEntries or with the 1000 of the ingest.
TailMenu == <<LineR1, LineBlank, LineMalformed, LinePartial>>

TailAppendLine ==
    /\ Len(access_log) < MaxTailLines
    /\ access_log # <<>> => access_log[Len(access_log)].kind # "partial"
    /\ \E i \in 1..Len(TailMenu) : access_log' = Append(access_log, TailMenu[i])
    /\ UNCHANGED <<ingest_vars, last_position, tail, not_tail>>

TailCompleteLine ==
    /\ access_log # <<>>
    /\ access_log[Len(access_log)].kind = "partial"
    /\ access_log' = [access_log EXCEPT ![Len(access_log)] = LineR1]
    /\ UNCHANGED <<ingest_vars, last_position, tail, not_tail>>

TailRead ==
    /\ tail.calls < MaxTailCalls
    /\ \E m \in 1..(MaxTailEntries + 1) :
        \E max \in {IF m > MaxTailEntries THEN ingest_max_entries ELSE m} :
        \E rd \in {read_new_entries(access_log, last_position, max)} :
          /\ last_position' = rd.last_position
          /\ tail' = [returned |-> tail.returned
                                     \o [k \in 1..Len(rd.entries) |-> rd.entries[k].lineno],
                      calls |-> tail.calls + 1,
                      max_entries |-> max,
                      file_len |-> LineEnd(access_log, Len(access_log))]
    /\ UNCHANGED <<ingest_vars, access_log, not_tail>>

NextTail ==
    \/ TailAppendLine
    \/ TailCompleteLine
    \/ TailRead

SpecTail == Init /\ [][NextTail]_vars

\* ------------------------------------- the access-log tail of a rotated log
\* The same reader on a log that is also truncated or replaced by a new,
\* shorter file.  A read that starts inside a line of the new file gets the
\* rest of that line, which is not a JSON document, and skips it.
AccessLogTruncated ==
    /\ access_log # <<>>
    /\ \E n \in 0..(Len(access_log) - 1) : access_log' = SubSeq(access_log, 1, n)
    /\ UNCHANGED <<ingest_vars, last_position, tail, not_tail>>

NextRotation ==
    \/ TailAppendLine
    \/ TailCompleteLine
    \/ TailRead
    \/ AccessLogTruncated

SpecRotation == Init /\ [][NextRotation]_vars

\* ------------------------------------------------ TcpTapProcessor.process_tap
\* The Store tables the TCP processor writes.  An event of a tap is
\* [kind, data]; data is the decoded as_bytes, with "F" a match of flag_format.
\* the flags of one event as (location, offset, flag) with the offset in the
\* whole stream of that direction
event_flags(location, data, before) ==
    [k \in 1..Len(find_body_flags(data, 1)) |->
        [location |-> location, offset |-> find_body_flags(data, 1)[k] + before]]

\* the first loop over the events: byte totals and flags_found
RECURSIVE scan_events(_, _, _)
scan_events(events, i, acc) ==
    IF i > Len(events) THEN acc
    ELSE IF events[i].kind = "read"
        THEN scan_events(events, i + 1,
                 [acc EXCEPT !.total_read_bytes = @ + Len(events[i].data),
                             !.flags_found = @ \o event_flags("read", events[i].data,
                                                              acc.total_read_bytes)])
    ELSE IF events[i].kind = "write"
        THEN scan_events(events, i + 1,
                 [acc EXCEPT !.total_write_bytes = @ + Len(events[i].data),
                             !.flags_found = @ \o event_flags("write", events[i].data,
                                                              acc.total_write_bytes)])
    ELSE scan_events(events, i + 1, acc)

\* tcp_connections.insert, the tcp_events.insert loop, flags.insert_many
insert_connection_rows(tx, events, scanned, port, tap_id, batch_id, log_entry) ==
    [tx EXCEPT
       !.tcp_connection = Append(@,
           [id |-> Len(tx.tcp_connection) + 1, port |-> port,
            bytes_in |-> log_entry.bytes_in, bytes_out |-> log_entry.bytes_out,
            start_time |-> log_entry.start_time_ts,
            tap_id |-> tap_id, batch_id |-> batch_id]),
       !.tcp_event = @ \o [k \in 1..Len(events) |->
           [connection_id |-> Len(tx.tcp_connection) + 1,
            event_type |-> events[k].kind,
            data_size |-> IF events[k].kind = "closed" THEN 0 ELSE Len(events[k].data)]],
       !.flag = @ \o [k \in 1..Len(scanned.flags_found) |->
           [tcp_connection_id |-> Len(tx.tcp_connection) + 1,
            location |-> scanned.flags_found[k].location,
            offset |-> scanned.flags_found[k].offset]]]

\* ServiceStatsRow.Increment as tcp.py builds it
tcp_service_increment(scanned, port, log_entry) ==
    [port |-> port,
     total_requests |-> 0, total_blocked_requests |-> 0, total_responses |-> 0,
     total_tcp_connections |-> 1,
     total_tcp_bytes_in |-> log_entry.bytes_in,
     total_tcp_bytes_out |-> log_entry.bytes_out,
     total_flags_written |->
         Cardinality({k \in 1..Len(scanned.flags_found) :
                         scanned.flags_found[k].location = "write"}),
     total_flags_retrieved |->
         Cardinality({k \in 1..Len(scanned.flags_found) :
                         scanned.flags_found[k].location = "read"})]

\* UPDATE ... SET count = count + ?, INSERT when no row was changed
count_increment(table, key, count) ==
    IF key \in DOMAIN table THEN [table EXCEPT ![key] = @ + count]
                             ELSE DictPut(table, key, count)

\* the bucket of a byte total
bucket_min(total, precision) == (total \div precision) * precision

\* the "if port:" block: service_stats, tcp_connection_stats, time stats
increment_tcp_stats(tx, scanned, port, log_entry, precision) ==
    [tx EXCEPT
       !.service_stats =
           service_stats_increment(@, tcp_service_increment(scanned, port, log_entry)),
       !.tcp_connection_stats =
           count_increment(@,
               <<port,
                 bucket_min(scanned.total_read_bytes, precision),
                 bucket_min(scanned.total_read_bytes, precision) + precision,
                 bucket_min(scanned.total_write_bytes, precision),
                 bucket_min(scanned.total_write_bytes, precision) + precision>>, 1),
       !.tcp_connection_time_stats =
           count_increment(@,
               <<port,
                 bucket_min(scanned.total_read_bytes, precision),
                 bucket_min(scanned.total_read_bytes, precision) + precision,
                 bucket_min(scanned.total_write_bytes, precision),
                 bucket_min(scanned.total_write_bytes, precision) + precision,
                 (log_entry.start_time_ts \div minute_ms) * minute_ms>>, 1)]

tcp_process_scanned(tx, events, scanned, port, tap_id, batch_id, log_entry) ==
    IF PortKnown(port)
       THEN increment_tcp_stats(
                insert_connection_rows(tx, events, scanned, port, tap_id, batch_id,
                                       log_entry),
                scanned, port, log_entry, default_precision)
       ELSE insert_connection_rows(tx, events, scanned, port, tap_id, batch_id, log_entry)

tcp_process_tap(tx, data, tap_id, batch_id, log_entry) ==
    tcp_process_scanned(
        tx, data.events,
        scan_events(data.events, 1,
                    [total_read_bytes |-> 0, total_write_bytes |-> 0,
                     flags_found |-> <<>>]),
        try_get_port_from_upstream_host(log_entry.upstream_host),
        tap_id, batch_id, log_entry)

\* The taps and log entries the processor is given: a connection that wrote
\* one flag and read two, one that only wrote, one without events; entries
\* of port 8080 in two minutes and an entry whose upstream host has no port.
TcpTapMenu ==
    << [events |-> <<TcpEvent("write", <<"F", "x">>), TcpEvent("read", <<"x", "F">>),
                     TcpEvent("read", <<"F">>), TcpEvent("closed", <<>>)>>],
       [events |-> <<TcpEvent("write", <<"x", "F", "F">>)>>],
       [events |-> <<>>] >>
TcpLogMenu ==
    << TcpLogEntry(Host8080, 2, 3, 1000),
       TcpLogEntry(Host8080, 0, 1, minute_ms + 1),
       TcpLogEntry(HostNoPort, 1, 1, 1000) >>

TcpProcessTap ==
    /\ tcp.taps < MaxTcpTaps
    /\ \E i \in 1..Len(TcpTapMenu), j \in 1..Len(TcpLogMenu) :
          tcp' = [store |-> tcp_process_tap(tcp.store, TcpTapMenu[i], tcp.taps + 1, 1,
                                            TcpLogMenu[j]),
                  taps |-> tcp.taps + 1,
                  data |-> TcpTapMenu[i],
                  log_entry |-> TcpLogMenu[j]]
    /\ UNCHANGED <<ingest_vars, access_log, last_position, not_tcp>>

NextTcp == TcpProcessTap

SpecTcp == Init /\ [][NextTcp]_vars

\* ------------------------------------------- SessionTable, SessionLinkTable
\* session maps (port, key) to [id, count]; session_link is the set of
\* (session_id, http_request_id) rows, unique as pairs.

\* SessionTable.upsert: the table afterwards and the id returned
session_upsert(table, port, key) ==
    IF <<port, key>> \in DOMAIN table
       THEN [table |-> [table EXCEPT ![<<port, key>>].count = @ + 1],
             id |-> table[<<port, key>>].id]
       ELSE [table |-> DictPut(table, <<port, key>>,
                               [id |-> Cardinality(DOMAIN table) + 1, count |-> 1]),
             id |-> Cardinality(DOMAIN table) + 1]

\* INSERT OR IGNORE INTO session_link
session_link_insert_or_ignore(links, session_id, http_request_id) ==
    links \cup {<<session_id, http_request_id>>}

\* SessionLinkTable.insert
session_link_insert(tables, port, session_key, http_request_id) ==
    [tables EXCEPT
       !.session = session_upsert(@, port, session_key).table,
       !.session_link = session_link_insert_or_ignore(
                            @, session_upsert(tables.session, port, session_key).id,
                            http_request_id)]

SessionPorts == <<8080, 9090>>
SessionKeys == <<"s1", "s2">>

SessionLinkInsert ==
    /\ session_db.calls < MaxLinkInserts
    /\ \E i \in 1..Len(SessionPorts), j \in 1..Len(SessionKeys),
          http_request_id \in 1..MaxLinkRequests :
          session_db' = [session_link_insert(session_db, SessionPorts[i], SessionKeys[j],
                                             http_request_id)
                            EXCEPT !.calls = @ + 1]
    /\ UNCHANGED <<ingest_vars, access_log, last_position, not_session_db>>

NextSessionLinks == SessionLinkInsert

SpecSessionLinks == Init /\ [][NextSessionLinks]_vars

\* ---------------------------------------------------------- SessionsStorage
\* A header is <<key, value>>; the value of a cookie header is given as the
\* <<name, value>> pairs SimpleCookie parses out of it.  A timeline is the
\* sorted list of <<timestamp, request_id>> of SessionRequests.
cookie_names ==
    <<"session", "sessid", "sid", "token", "auth", "sessionid",
      ".AspNetCore.Identity.Application">>

\* for cookie_name in cookie_names: if cookie_name in cookie: return its value
RECURSIVE first_named_cookie(_, _)
first_named_cookie(cookie, i) ==
    IF i > Len(cookie_names) THEN NONE
    ELSE IF \E k \in 1..Len(cookie) : cookie[k][1] = cookie_names[i]
        THEN cookie[CHOOSE k \in 1..Len(cookie) :
                        /\ cookie[k][1] = cookie_names[i]
                        /\ \A later \in (k + 1)..Len(cookie) :
                              cookie[later][1] # cookie_names[i]][2]
        ELSE first_named_cookie(cookie, i + 1)

\* get_in_session (header_key "cookie") and get_out_session ("set-cookie")
RECURSIVE get_session(_, _, _)
get_session(headers, header_key, h) ==
    IF h > Len(headers) THEN NONE
    ELSE IF headers[h][1] = header_key /\ first_named_cookie(headers[h][2], 1) # NONE
        THEN first_named_cookie(headers[h][2], 1)
        ELSE get_session(headers, header_key, h + 1)

\* the order of Python tuples (timestamp, request_id)
tuple_less(a, b) == a[1] < b[1] \/ (a[1] = b[1] /\ a[2] < b[2])

\* SessionRequests.add_request: insort
insort(requests, item) ==
    [k \in 1..(Len(requests) + 1) |->
        IF k <= Cardinality({n \in 1..Len(requests) : ~tuple_less(item, requests[n])})
           THEN requests[k]
        ELSE IF k = Cardinality({n \in 1..Len(requests) :
                                    ~tuple_less(item, requests[n])}) + 1
           THEN item
        ELSE requests[k - 1]]

\* bisect_left(self.requests, (timestamp, 0))
bisect_left_zero(requests, timestamp) ==
    Cardinality({n \in 1..Len(requests) : tuple_less(requests[n], <<timestamp, 0>>)})

\* bisect_right(self.requests, (timestamp, inf)): every request id is below inf
bisect_right_inf(requests, timestamp) ==
    Cardinality({n \in 1..Len(requests) : requests[n][1] <= timestamp})

\* a lookup that takes the last entry at or before the timestamp
find_request_before_inclusive(requests, timestamp) ==
    IF bisect_right_inf(requests, timestamp) > 0
       THEN requests[bisect_right_inf(requests, timestamp)][2]
       ELSE 0

\* SessionRequests.find_request_before / find_request_after; 0 stands for None
find_request_before(requests, timestamp) ==
    IF bisect_left_zero(requests, timestamp) > 0
       THEN requests[bisect_left_zero(requests, timestamp)][2]
       ELSE 0

\* a lookup that takes the first entry at or after the timestamp
find_request_after_inclusive(requests, timestamp) ==
    IF bisect_left_zero(requests, timestamp) < Len(requests)
       THEN requests[bisect_left_zero(requests, timestamp) + 1][2]
       ELSE 0

find_request_after(requests, timestamp) ==
    IF bisect_right_inf(requests, timestamp) < Len(requests)
       THEN requests[bisect_right_inf(requests, timestamp) + 1][2]
       ELSE 0

\* self.request_sessions[(port, session)]: the defaultdict creates the timeline
timeline(sessions, port, session) ==
    IF <<port, session>> \in DOMAIN sessions THEN sessions[<<port, session>>] ELSE <<>>

\* add_request once the two sessions have been read from the headers
add_request_sessions(st, port, request_id, start_time, in_session, out_session) ==
    [st EXCEPT
       !.requests = IF in_session # NONE \/ out_session # NONE
                       THEN DictPut(@, <<port, request_id>>,
                                    [start_time |-> start_time, session_in |-> in_session,
                                     session_out |-> out_session])
                       ELSE @,
       !.request_sessions =
           IF in_session # NONE
              THEN DictPut(@, <<port, in_session>>,
                           insort(timeline(@, port, in_session), <<start_time, request_id>>))
              ELSE @,
       !.response_sessions =
           IF out_session # NONE
              THEN DictPut(@, <<port, out_session>>,
                           insort(timeline(@, port, out_session),
                                  <<start_time, request_id>>))
              ELSE @]

add_request(st, port, request_id, start_time, request_headers, response_headers) ==
    add_request_sessions(st, port, request_id, start_time,
                         get_session(request_headers, "cookie", 1),
                         get_session(response_headers, "set-cookie", 1))

Link(from_request_id, to_request_id) ==
    [from_request_id |-> from_request_id, to_request_id |-> to_request_id]

\* the "if in_session:" and "if out_session:" blocks of get_links
in_links(st, port, request_id, request_info) ==
    IF /\ request_info.session_in # NONE
       /\ <<port, request_info.session_in>> \in DOMAIN st.request_sessions
       /\ find_request_before(st.request_sessions[<<port, request_info.session_in>>],
                              request_info.start_time) # 0
       THEN <<Link(find_request_before(
                       st.request_sessions[<<port, request_info.session_in>>],
                       request_info.start_time),
                   request_id)>>
       ELSE <<>>

out_links(st, port, request_id, request_info) ==
    IF /\ request_info.session_out # NONE
       /\ <<port, request_info.session_out>> \in DOMAIN st.response_sessions
       /\ find_request_after(st.response_sessions[<<port, request_info.session_out>>],
                             request_info.start_time) # 0
       THEN <<Link(request_id,
                   find_request_after(
                       st.response_sessions[<<port, request_info.session_out>>],
                       request_info.start_time))>>
       ELSE <<>>

get_links(st, port, request_id) ==
    IF <<port, request_id>> \notin DOMAIN st.requests THEN <<>>
    ELSE in_links(st, port, request_id, st.requests[<<port, request_id>>])
         \o out_links(st, port, request_id, st.requests[<<port, request_id>>])

\* The requests added: port, request headers, response headers.  Sessions
\* s1 and s2 come in under different cookie names; one request carries no
\* session cookie at all.
CookieHeader(key, pairs) == <<key, pairs>>
SessionRequestMenu ==
    << [port |-> 8080,
        request_headers |-> <<CookieHeader("cookie", << <<"session", "s1">> >>)>>,
        response_headers |-> <<>>],
       [port |-> 8080,
        request_headers |-> <<CookieHeader("host", <<>>)>>,
        response_headers |-> <<CookieHeader("set-cookie", << <<"session", "s1">> >>)>>],
       [port |-> 8080,
        request_headers |-> <<CookieHeader("cookie", << <<"sid", "s2">>, <<"lang", "en">> >>)>>,
        response_headers |-> <<CookieHeader("set-cookie", << <<"session", "s1">> >>)>>],
       [port |-> 9090,
        request_headers |-> <<CookieHeader("cookie", << <<"sid", "s2">>, <<"session", "s1">> >>)>>,
        response_headers |-> <<CookieHeader("set-cookie", << <<"token", "s1">> >>)>>],
       [port |-> 8080,
        request_headers |-> <<CookieHeader("cookie", << <<"session", "s1">> >>)>>,
        response_headers |-> <<CookieHeader("set-cookie", << <<"sid", "s2">> >>)>>],
       [port |-> 8080,
        request_headers |-> <<CookieHeader("cookie", << <<"lang", "en">> >>)>>,
        response_headers |-> <<>>] >>
SessionTimes == <<10, 20, 30>>

\* a request is added under the next request id
SessionsAddRequest ==
    /\ Len(session_storage.added) < MaxSessionRequests
    /\ \E i \in 1..Len(SessionRequestMenu), t \in 1..Len(SessionTimes) :
        \E st \in {add_request([requests |-> session_storage.requests,
                                 request_sessions |-> session_storage.request_sessions,
                                 response_sessions |-> session_storage.response_sessions],
                                SessionRequestMenu[i].port,
                                Len(session_storage.added) + 1,
                                SessionTimes[t],
                                SessionRequestMenu[i].request_headers,
                                SessionRequestMenu[i].response_headers)} :
          session_storage' =
              [session_storage EXCEPT
                 !.requests = st.requests,
                 !.request_sessions = st.request_sessions,
                 !.response_sessions = st.response_sessions,
                 !.added = Append(@, [port |-> SessionRequestMenu[i].port,
                                      start_time |-> SessionTimes[t],
                                      request_headers |->
                                          SessionRequestMenu[i].request_headers,
                                      response_headers |->
                                          SessionRequestMenu[i].response_headers])]
    /\ UNCHANGED <<ingest_vars, access_log, last_position, not_session_storage>>

\* get_links is called for a request that was added
SessionsGetLinks ==
    /\ \E request_id \in 1..Len(session_storage.added) :
          /\ session_storage.asked # <<session_storage.added[request_id].port, request_id>>
          /\ session_storage' =
                [session_storage EXCEPT
                   !.links = get_links(session_storage,
                                       session_storage.added[request_id].port, request_id),
                   !.asked = <<session_storage.added[request_id].port, request_id>>]
    /\ UNCHANGED <<ingest_vars, access_log, last_position, not_session_storage>>

NextSessions ==
    \/ SessionsAddRequest
    \/ SessionsGetLinks

SpecSessions == Init /\ [][NextSessions]_vars

\* ------------------------------------------------------- the counter tables
\* ServiceStatsRow.Increment
ServiceStatsIncrement(port, requests, blocked, responses, written, retrieved, connections, bytes_in, bytes_out) ==
    [port |-> port,
     total_requests |-> requests, total_blocked_requests |-> blocked,
     total_responses |-> responses,
     total_flags_written |-> written, total_flags_retrieved |-> retrieved,
     total_tcp_connections |-> connections,
     total_tcp_bytes_in |-> bytes_in, total_tcp_bytes_out |-> bytes_out]

\* the counters an Increment carries
IncrementCounters ==
    {"total_requests", "total_blocked_requests", "total_responses",
     "total_flags_written", "total_flags_retrieved",
     "total_tcp_connections", "total_tcp_bytes_in", "total_tcp_bytes_out"}

\* the Increment with every counter multiplied by k
ScaledIncrement(inc, k) ==
    [c \in DOMAIN inc |-> IF c = "port" THEN inc.port ELSE k * inc[c]]

CounterPorts == <<8080, 9090>>
CounterPaths == <<PathA, PathB>>
CounterTimes == <<0, minute_ms>>
CounterBuckets == <<0, default_precision>>

\* the increments of an HTTP request, of a blocked one with a flag, of a TCP
\* connection
ServiceIncrementMenu(port) ==
    << ServiceStatsIncrement(port, 1, 0, 1, 0, 0, 0, 0, 0),
       ServiceStatsIncrement(port, 1, 1, 0, 1, 2, 0, 0, 0),
       ServiceStatsIncrement(port, 0, 0, 0, 0, 1, 1, 2, 3) >>

ServiceStatsTableIncrement ==
    /\ counters.calls < MaxCounterCalls
    /\ \E i \in 1..Len(CounterPorts), j \in 1..Len(ServiceIncrementMenu(0)) :
          counters' =
              [counters EXCEPT
                 !.service_stats =
                     service_stats_increment(@, ServiceIncrementMenu(CounterPorts[i])[j]),
                 !.calls = @ + 1, !.table = "service_stats", !.key = CounterPorts[i],
                 !.delta = ServiceIncrementMenu(CounterPorts[i])[j]]
    /\ UNCHANGED <<ingest_vars, access_log, last_position, not_counters>>

HttpPathStatsTableIncrement ==
    /\ counters.calls < MaxCounterCalls
    /\ \E i \in 1..Len(CounterPorts), j \in 1..Len(CounterPaths), count \in 1..2 :
          counters' =
              [counters EXCEPT
                 !.http_path_stats =
                     http_path_stats_increment(@, CounterPorts[i], CounterPaths[j],
                                               count).table,
                 !.calls = @ + 1, !.table = "http_path_stats",
                 !.key = <<CounterPorts[i], CounterPaths[j]>>, !.delta = count]
    /\ UNCHANGED <<ingest_vars, access_log, last_position, not_counters>>

HttpPathTimeStatsTableIncrement ==
    /\ counters.calls < MaxCounterCalls
    /\ \E i \in 1..Len(CounterPorts), j \in 1..Len(CounterTimes), count \in 1..2 :
          counters' =
              [counters EXCEPT
                 !.http_path_time_stats =
                     http_path_time_stats_increment(
                         @, <<CounterPorts[i], PathA, CounterTimes[j]>>, count).table,
                 !.calls = @ + 1, !.table = "http_path_time_stats",
                 !.key = <<CounterPorts[i], PathA, CounterTimes[j]>>, !.delta = count]
    /\ UNCHANGED <<ingest_vars, access_log, last_position, not_counters>>

TcpConnectionStatsTableIncrement ==
    /\ counters.calls < MaxCounterCalls
    /\ \E i \in 1..Len(CounterPorts), j \in 1..Len(CounterBuckets), count \in 1..2 :
          counters' =
              [counters EXCEPT
                 !.tcp_connection_stats =
                     count_increment(
                         @, <<CounterPorts[i], CounterBuckets[j],
                              CounterBuckets[j] + default_precision, 0,
                              default_precision>>, count),
                 !.calls = @ + 1, !.table = "tcp_connection_stats",
                 !.key = <<CounterPorts[i], CounterBuckets[j],
                           CounterBuckets[j] + default_precision, 0, default_precision>>,
                 !.delta = count]
    /\ UNCHANGED <<ingest_vars, access_log, last_position, not_counters>>

NextCounters ==
    \/ ServiceStatsTableIncrement
    \/ HttpPathStatsTableIncrement
    \/ HttpPathTimeStatsTableIncrement
    \/ TcpConnectionStatsTableIncrement

SpecCounters == Init /\ [][NextCounters]_vars

\* ------------------------------------------------ ProxyStatsDB.execute_sql
\* A query is a sequence of characters.
CharUpper(c) ==
    CASE c = "a" -> "A" []
         c = "b" -> "B" []
         c = "c" -> "C" []
         c = "d" -> "D" []
         c = "e" -> "E" []
         c = "f" -> "F" []
         c = "g" -> "G" []
         c = "h" -> "H" []
         c = "i" -> "I" []
         c = "j" -> "J" []
         c = "k" -> "K" []
         c = "l" -> "L" []
         c = "m" -> "M" []
         c = "n" -> "N" []
         c = "o" -> "O" []
         c = "p" -> "P" []
         c = "q" -> "Q" []
         c = "r" -> "R" []
         c = "s" -> "S" []
         c = "t" -> "T" []
         c = "u" -> "U" []
         c = "v" -> "V" []
         c = "w" -> "W" []
         c = "x" -> "X" []
         c = "y" -> "Y" []
         c = "z" -> "Z"
      [] OTHER -> c

\* str.upper()
str_upper(str) == [i \in 1..Len(str) |-> CharUpper(str[i])]

\* str.strip() and str.rstrip() for the whitespace the queries hold
RECURSIVE str_rstrip(_)
str_rstrip(str) ==
    IF str # <<>> /\ str[Len(str)] = " " THEN str_rstrip(SubSeq(str, 1, Len(str) - 1))
    ELSE str

RECURSIVE str_lstrip(_)
str_lstrip(str) ==
    IF str # <<>> /\ str[1] = " " THEN str_lstrip(Tail(str)) ELSE str

str_strip(str) == str_lstrip(str_rstrip(str))

\* str.startswith(prefix)
str_startswith(str, prefix) ==
    Len(str) >= Len(prefix) /\ SubSeq(str, 1, Len(prefix)) = prefix

\* sub in str
str_contains(str, sub) ==
    \E i \in 1..(Len(str) - Len(sub) + 1) : SubSeq(str, i, i + Len(sub) - 1) = sub

\* while query.endswith(";"): query = query[:-1].rstrip()
RECURSIVE strip_semicolons(_)
strip_semicolons(query) ==
    IF query # <<>> /\ query[Len(query)] = ";"
       THEN strip_semicolons(str_rstrip(SubSeq(query, 1, Len(query) - 1)))
       ELSE query

kw_SELECT == <<"S", "E", "L", "E", "C", "T">>
kw_LIMIT == <<"L", "I", "M", "I", "T">>
kw_DELETE == <<"D", "E", "L", "E", "T", "E">>
kw_FROM == <<"F", "R", "O", "M">>

\* f"{query} LIMIT {default_limit}" unless the text holds LIMIT already
with_default_limit(query, limit) ==
    IF limit # 0 /\ ~str_contains(str_upper(query), kw_LIMIT)
       THEN query \o <<" ">> \o kw_LIMIT \o <<" ">> \o DecimalString(limit)
       ELSE query

checked_query_any_statement(stripped, limit) ==
    [error |-> "none", query |-> with_default_limit(stripped, limit)]

\* execute_sql up to the start of the worker: the error raised and the query
\* the worker is given
checked_query(stripped, limit) ==
    IF ~str_startswith(str_upper(stripped), kw_SELECT)
       THEN [error |-> "ValueError", query |-> stripped]
       ELSE [error |-> "none", query |-> with_default_limit(stripped, limit)]

prepare_query(query, limit) == checked_query(strip_semicolons(str_strip(query)), limit)

\* ---- what sqlite3 does with the text of a query
\* The tokens of a text: words split at blanks, ";" on its own, a quoted
\* literal as one token.  word is the token being read, quoted whether a
\* literal is open.
RECURSIVE sql_tokens(_, _, _)
sql_tokens(text, word, quoted) ==
    IF text = <<>> THEN (IF word = <<>> THEN <<>> ELSE <<word>>)
    ELSE IF quoted
        THEN IF Head(text) = "'"
                THEN <<Append(word, "'")>> \o sql_tokens(Tail(text), <<>>, FALSE)
                ELSE sql_tokens(Tail(text), Append(word, Head(text)), TRUE)
    ELSE IF Head(text) = "'"
        THEN (IF word = <<>> THEN <<>> ELSE <<word>>)
             \o sql_tokens(Tail(text), <<"'">>, TRUE)
    ELSE IF Head(text) = " "
        THEN (IF word = <<>> THEN <<>> ELSE <<word>>) \o sql_tokens(Tail(text), <<>>, FALSE)
    ELSE IF Head(text) = ";"
        THEN (IF word = <<>> THEN <<>> ELSE <<word>>) \o <<<<";">>>>
             \o sql_tokens(Tail(text), <<>>, FALSE)
    ELSE sql_tokens(Tail(text), Append(word, Head(text)), FALSE)

\* keywords are case-insensitive
IsKeyword(token, keyword) == str_upper(token) = keyword

\* the positions of a keyword among the tokens
KeywordAt(tokens, keyword) == {i \in 1..Len(tokens) : IsKeyword(tokens[i], keyword)}

\* the index of the first ";" token, 0 when there is none
RECURSIVE first_semicolon(_, _)
first_semicolon(tokens, i) ==
    IF i > Len(tokens) THEN 0
    ELSE IF tokens[i] = <<";">> THEN i
    ELSE first_semicolon(tokens, i + 1)

\* sqlite3 refuses text with anything but ";" after its first statement
HasSecondStatement(tokens) ==
    /\ first_semicolon(tokens, 1) # 0
    /\ \E i \in (first_semicolon(tokens, 1) + 1)..Len(tokens) : tokens[i] # <<";">>

\* the first statement of the text
first_statement(tokens) ==
    IF first_semicolon(tokens, 1) = 0 THEN tokens
    ELSE SubSeq(tokens, 1, first_semicolon(tokens, 1) - 1)

\* a decimal literal
IsNumber(token) == token # <<>> /\ \A i \in 1..Len(token) : IsDigit(token[i])

\* SELECT ... [LIMIT n]: well-formed when it has no LIMIT keyword, or one,
\* followed by a number that ends the statement
SelectWellFormed(stmt) ==
    /\ stmt # <<>>
    /\ IsKeyword(stmt[1], kw_SELECT)
    /\ Len(stmt) >= 2
    /\ KeywordAt(stmt, kw_SELECT) = {1}
    /\ KeywordAt(stmt, kw_DELETE) = {}
    /\ \/ KeywordAt(stmt, kw_LIMIT) = {}
       \/ /\ Len(stmt) >= 4
          /\ KeywordAt(stmt, kw_LIMIT) = {Len(stmt) - 1}
          /\ IsNumber(stmt[Len(stmt)])

\* the text is one SELECT statement
IsSingleSelect(text) ==
    /\ ~HasSecondStatement(sql_tokens(text, <<>>, FALSE))
    /\ SelectWellFormed(first_statement(sql_tokens(text, <<>>, FALSE)))

\* the statement has a LIMIT clause
HasLimitClause(text) == KeywordAt(sql_tokens(text, <<>>, FALSE), kw_LIMIT) # {}

Min(a, b) == IF a <= b THEN a ELSE b

\* the rows a well-formed SELECT yields over a table of table_rows rows: one
\* row without FROM, else the rows of the table, cut by LIMIT
select_rows(stmt, table_rows) ==
    Min(IF KeywordAt(stmt, kw_FROM) = {} THEN 1 ELSE table_rows,
        IF KeywordAt(stmt, kw_LIMIT) = {} THEN table_rows + 1
        ELSE DecimalValue(stmt[Len(stmt)]))

\* cursor.execute(query); cursor.fetchall() on a Store whose table holds
\* table_rows rows: the error raised, the number of rows fetched, the rows
\* the table holds afterwards
sqlite_run(tokens, table_rows) ==
    IF HasSecondStatement(tokens)
       THEN [error |-> "sqlite3.Error", rows |-> 0, table_rows |-> table_rows]
    ELSE IF first_statement(tokens) # <<>> /\ IsKeyword(first_statement(tokens)[1], kw_DELETE)
       THEN [error |-> "none", rows |-> 0, table_rows |-> 0]
    ELSE IF SelectWellFormed(first_statement(tokens))
       THEN [error |-> "none", rows |-> select_rows(first_statement(tokens), table_rows),
             table_rows |-> table_rows]
    ELSE [error |-> "sqlite3.Error", rows |-> 0, table_rows |-> table_rows]

sqlite_execute(query, table_rows) == sqlite_run(sql_tokens(query, <<>>, FALSE), table_rows)

\* ---- POST /api/sql
\* The timeout field of the request body: absent, null, a number or a string.
TimeoutField(kind, number, text) == [kind |-> kind, number |-> number, text |-> text]
\* request.get("timeout", 10.0)
get_timeout(field) ==
    IF field.kind = "absent" THEN TimeoutField("number", default_timeout, <<>>) ELSE field

\* Python truth of the field
timeout_truthy(field) ==
    \/ field.kind = "number" /\ field.number # 0
    \/ field.kind = "string" /\ field.text # <<>>

\* float(timeout) and the range check, 10.0 on TypeError or ValueError
float_in_range(field) ==
    IF field.kind = "string" /\ ~IsNumber(field.text) THEN Seconds(default_timeout)
    ELSE IF (IF field.kind = "string" THEN DecimalValue(field.text) ELSE field.number) <= 0
            \/ (IF field.kind = "string" THEN DecimalValue(field.text) ELSE field.number)
                 > max_timeout
        THEN Seconds(default_timeout)
    ELSE Seconds(IF field.kind = "string" THEN DecimalValue(field.text) ELSE field.number)

\* the "if timeout:" block of the handler
checked_timeout(field) ==
    IF timeout_truthy(field) THEN float_in_range(field)
    ELSE IF field.kind = "number" THEN Seconds(field.number)
    ELSE NoTimeout

request_timeout(field) == checked_timeout(get_timeout(field))

interrupt_connection_ignored(conn, worker) == FALSE

\* conn.interrupt(): a running statement of an open connection is interrupted;
\* with no statement running it does nothing, on a closed connection it
\* raises and the error is swallowed
interrupt_connection(conn, worker) == conn = "open" /\ worker = "execute"

SqlQueryMenu ==
    << <<"s", "e", "l", "e", "c", "t", " ", "*", " ", "f", "r", "o", "m", " ", "t">>,
       <<" ", "S", "E", "L", "E", "C", "T", " ", "*", " ", "F", "R", "O", "M", " ", "t", " ", ";", " ", ";">>,
       <<"S", "E", "L", "E", "C", "T", " ", "*", " ", "F", "R", "O", "M", " ", "t", " ", "L", "I", "M", "I", "T", " ", "2">>,
       <<"D", "E", "L", "E", "T", "E", " ", "F", "R", "O", "M", " ", "t">>,
       <<"S", "E", "L", "E", "C", "T", " ", "1", ";", "D", "E", "L", "E", "T", "E", " ", "F", "R", "O", "M", " ", "t">>,
       <<"S", "E", "L", "E", "C", "T", " ", "*", " ", "F", "R", "O", "M", " ", "t", " ", "W", "H", "E", "R", "E", " ", "c", " ", "=", " ", "'", "l", "i", "m", "i", "t", "'">>,
       <<" ", " ">> >>

SqlTimeoutMenu ==
    << TimeoutField("absent", 0, <<>>), TimeoutField("null", 0, <<>>),
       TimeoutField("number", 0, <<>>), TimeoutField("number", -1, <<>>),
       TimeoutField("number", 5, <<>>), TimeoutField("number", max_timeout + 1, <<>>),
       TimeoutField("string", 0, <<"5">>), TimeoutField("string", 0, <<"a">>) >>

\* the call of db.execute_sql up to thread.start()
start_execute_sql(call, prepared) ==
    IF prepared.error # "none"
       THEN [call EXCEPT !.answer = Answer(403, prepared.error, -1)]
       ELSE [call EXCEPT !.query = prepared.query, !.main = "join", !.worker = "start",
                         !.conn = "none", !.interrupted = FALSE, !.results = -1,
                         !.exception = "none"]

\* the handler up to thread.start()
post_sql(call, query, field) ==
    IF str_strip(query) = <<>>
       THEN [SqlIdle EXCEPT !.calls = call.calls + 1, !.table_rows = call.table_rows,
                            !.request = query,
                            !.answer = Answer(400, "Query is required", -1)]
       ELSE start_execute_sql(
                [SqlIdle EXCEPT !.calls = call.calls + 1, !.table_rows = call.table_rows,
                                !.request = query, !.timeout = request_timeout(field)],
                prepare_query(str_strip(query), default_limit))

SqlPost ==
    /\ sql.calls < MaxSqlCalls
    /\ sql.main = "idle"
    /\ sql.worker \in {"none", "done"}
    /\ \E i \in 1..Len(SqlQueryMenu), j \in 1..Len(SqlTimeoutMenu) :
          sql' = post_sql(sql, SqlQueryMenu[i], SqlTimeoutMenu[j])
    /\ UNCHANGED <<ingest_vars, access_log, last_position, not_sql>>

\* thread.join(timeout) returns because the timeout elapsed
JoinTimesOut ==
    /\ sql.main = "join"
    /\ sql.worker # "done"
    /\ sql.timeout.kind = "number"
    /\ sql' = [sql EXCEPT !.main = "check_alive", !.at_timeout = sql.worker]
    /\ UNCHANGED <<ingest_vars, access_log, last_position, not_sql>>

\* thread.join(timeout) returns because the worker ended
JoinThreadEnded ==
    /\ sql.main = "join"
    /\ sql.worker = "done"
    /\ sql' = [sql EXCEPT !.main = "check_alive"]
    /\ UNCHANGED <<ingest_vars, access_log, last_position, not_sql>>

\* if thread.is_alive(): ... ; if exception: raise exception; return the rows
CheckAlive ==
    /\ sql.main = "check_alive"
    /\ sql' = IF sql.worker # "done" THEN [sql EXCEPT !.main = "check_conn"]
              ELSE IF sql.exception # "none"
                  THEN [sql EXCEPT !.main = "idle",
                                   !.answer = Answer(400, sql.exception, -1)]
              ELSE [sql EXCEPT !.main = "idle",
                               !.answer = Answer(200, "none", sql.results)]
    /\ UNCHANGED <<ingest_vars, access_log, last_position, not_sql>>

\* if conn: ... ; raise TimeoutError
CheckConn ==
    /\ sql.main = "check_conn"
    /\ sql' = IF sql.conn = "none"
                 THEN [sql EXCEPT !.main = "idle",
                                  !.answer = Answer(408, "TimeoutError", -1)]
                 ELSE [sql EXCEPT !.main = "interrupt"]
    /\ UNCHANGED <<ingest_vars, access_log, last_position, not_sql>>

\* conn.interrupt(); raise TimeoutError
Interrupt ==
    /\ sql.main = "interrupt"
    /\ sql' = [sql EXCEPT !.main = "idle",
                          !.interrupted = interrupt_connection(sql.conn, sql.worker),
                          !.answer = Answer(408, "TimeoutError", -1)]
    /\ UNCHANGED <<ingest_vars, access_log, last_position, not_sql>>

\* conn = sqlite3.connect(self.db_file)
WorkerConnect ==
    /\ sql.worker = "start"
    /\ sql' = [sql EXCEPT !.worker = "connected", !.conn = "open"]
    /\ UNCHANGED <<ingest_vars, access_log, last_position, not_sql>>

\* cursor.execute(query) starts
WorkerExecute ==
    /\ sql.worker = "connected"
    /\ sql' = [sql EXCEPT !.worker = "execute"]
    /\ UNCHANGED <<ingest_vars, access_log, last_position, not_sql>>

\* the worker after cursor.execute and cursor.fetchall came back with ran
worker_fetched(call, ran) ==
    [call EXCEPT !.worker = "finally", !.table_rows = ran.table_rows,
                 !.exception = ran.error,
                 !.results = IF ran.error = "none" THEN ran.rows ELSE -1]

\* the statement runs to its end
WorkerFetch ==
    /\ sql.worker = "execute"
    /\ sql' = worker_fetched(sql, sqlite_execute(sql.query, sql.table_rows))
    /\ UNCHANGED <<ingest_vars, access_log, last_position, not_sql>>

\* the statement is interrupted: sqlite3.OperationalError
WorkerInterrupted ==
    /\ sql.worker = "execute"
    /\ sql.interrupted
    /\ sql' = [sql EXCEPT !.worker = "finally", !.exception = "sqlite3.Error"]
    /\ UNCHANGED <<ingest_vars, access_log, last_position, not_sql>>

\* finally: conn.close(); the thread ends
WorkerClose ==
    /\ sql.worker = "finally"
    /\ sql' = [sql EXCEPT !.worker = "done", !.conn = "closed"]
    /\ UNCHANGED <<ingest_vars, access_log, last_position, not_sql>>

NextSql ==
    \/ SqlPost
    \/ JoinTimesOut
    \/ JoinThreadEnded
    \/ CheckAlive
    \/ CheckConn
    \/ Interrupt
    \/ WorkerConnect
    \/ WorkerExecute
    \/ WorkerFetch
    \/ WorkerInterrupted
    \/ WorkerClose

SpecSql == Init /\ [][NextSql]_vars

\* the scheduler runs every thread that can run; how long a statement runs
\* is not bounded
SpecSqlLive ==
    /\ SpecSql
    /\ WF_vars(JoinThreadEnded) /\ WF_vars(CheckAlive) /\ WF_vars(CheckConn)
    /\ WF_vars(Interrupt) /\ WF_vars(WorkerConnect) /\ WF_vars(WorkerExecute)
    /\ WF_vars(WorkerInterrupted) /\ WF_vars(WorkerClose)

\* ------------------------------------------------- AuthMiddleware.dispatch
\* hashlib.sha256(token.encode()).hexdigest(): the digest of a token is
\* written <<"sha256", token>>; the empty string is no digest of any token.
hash_token(token) == <<"sha256", token>>

verify_token_any(token, token_hash) == TRUE

verify_token(token, token_hash) == hash_token(token) = token_hash

LoadedConfig(api_token_hash) == [loaded |-> TRUE, api_token_hash |-> api_token_hash]

prefix_api == <<"/", "a", "p", "i">>
prefix_Bearer == <<"B", "e", "a", "r", "e", "r", " ">>

\* the routes the application registers, all under /api
ApiRoutes == << <<"/", "a", "p", "i", "/", "h", "e", "a", "l", "t", "h">>, <<"/", "a", "p", "i", "/", "c", "o", "n", "f", "i", "g">> >>

\* call_next(request): the router runs the handler of the route that matches
call_next(path) ==
    IF \E i \in 1..Len(ApiRoutes) : ApiRoutes[i] = path
       THEN [status |-> 200, handled |-> TRUE]
       ELSE [status |-> 404, handled |-> FALSE]

Refused(status) == [status |-> status, handled |-> FALSE]

\* dispatch from "token = auth_header[7:]" on
dispatch_token(config, path, token) ==
    IF ~config.loaded THEN Refused(500)
    ELSE IF config.api_token_hash = <<>> THEN Refused(500)
    ELSE IF ~verify_token(token, config.api_token_hash) THEN Refused(401)
    ELSE call_next(path)

dispatch(config, path, header) ==
    IF ~str_startswith(path, prefix_api) THEN call_next(path)
    ELSE IF ~header.present \/ header.value = <<>> THEN Refused(401)
    ELSE IF ~str_startswith(header.value, prefix_Bearer) THEN Refused(401)
    ELSE dispatch_token(config, path,
                        SubSeq(header.value, Len(prefix_Bearer) + 1, Len(header.value)))

AuthPathMenu ==
    << <<"/", "a", "p", "i", "/", "h", "e", "a", "l", "t", "h">>,
       <<"/", "a", "p", "i", "/", "c", "o", "n", "f", "i", "g">>,
       <<"/", "a", "p", "i", "x">>,
       <<"/">> >>

AuthHeaderMenu ==
    << Header(FALSE, <<>>),
       Header(TRUE, <<"B", "a", "s", "i", "c", " ", "a">>),
       Header(TRUE, <<"B", "e", "a", "r", "e", "r", " ", "a">>),
       Header(TRUE, <<"B", "e", "a", "r", "e", "r", " ", "b">>),
       Header(TRUE, <<"b", "e", "a", "r", "e", "r", " ", "a">>),
       Header(TRUE, <<"B", "e", "a", "r", "e", "r", " ">>) >>

\* api_token_hash of a configuration file: the default "", the digest of a
\* token, a string that is no digest
TokenHashMenu == << <<>>, hash_token(<<"a">>), hash_token(<<"b">>), <<"a">> >>

\* init_app, and every later reload of the configuration
AuthLoadConfig ==
    /\ \E i \in 1..Len(TokenHashMenu) :
          /\ auth.config # LoadedConfig(TokenHashMenu[i])
          /\ auth' = [auth EXCEPT !.config = LoadedConfig(TokenHashMenu[i])]
    /\ UNCHANGED <<ingest_vars, access_log, last_position, not_auth>>

\* one request through the middleware
answered(call, path, header, response) ==
    [call EXCEPT !.requests = @ + 1, !.path = path, !.header = header,
                 !.status = response.status, !.handled = response.handled]

AuthRequest ==
    /\ auth.requests < MaxAuthRequests
    /\ \E i \in 1..Len(AuthPathMenu), j \in 1..Len(AuthHeaderMenu) :
          auth' = answered(auth, AuthPathMenu[i], AuthHeaderMenu[j],
                           dispatch(auth.config, AuthPathMenu[i], AuthHeaderMenu[j]))
    /\ UNCHANGED <<ingest_vars, access_log, last_position, not_auth>>

NextAuth ==
    \/ AuthLoadConfig
    \/ AuthRequest

SpecAuth == Init /\ [][NextAuth]_vars

\* --------------------------------------------------- Config, Watcher.look
ContentB == "api_token_hash: b, services: [web:8080]"
ContentEmpty == ""
ContentBadYaml == "invalid: yaml: content: ["
ContentSamePort == "services: [web:8080, api:8080]"
ConfigContents == <<ContentA, ContentB, ContentEmpty, ContentBadYaml, ContentSamePort>>

\* what failed: "yaml" for yaml.safe_load, "model" for ConfigModel(**data)
InvalidConfig(error) == [valid |-> FALSE, error |-> error]

\* yaml.safe_load(content), None replaced by {}, then ConfigModel(**data)
parse_config(content) ==
    CASE content = ContentA -> ConfigModel("a", 0)
      [] content = ContentB -> ConfigModel("b", 1)
      [] content = ContentEmpty -> ConfigModel("", 0)
      [] content = ContentSamePort -> InvalidConfig("model")
      [] OTHER -> InvalidConfig("yaml")

\* Config.validate_content
validate_content(content) == parse_config(content).valid

load_config_unvalidated(live, content) == parse_config(content)

\* Config.load_config on the content read: self._config is assigned only
\* after ConfigModel accepted the data; on ConfigError it keeps its value
load_config(live, content) ==
    IF parse_config(content).valid THEN parse_config(content) ELSE live

\* datetime.now().strftime("%Y%m%d_%H%M%S") at a time of the clock
backup_stamp(clock) == clock

\* the backup_dir after open(backup_path, "w").write(backup_content)
write_backup(backups, stamp, backup_content) ==
    IF stamp \in DOMAIN backups THEN [backups EXCEPT ![stamp] = backup_content]
    ELSE DictPut(backups, stamp, backup_content)

save_without_validation(c, content, create_backup) ==
    [c EXCEPT !.backups = IF create_backup
                             THEN write_backup(@, backup_stamp(c.clock), c.file.content)
                             ELSE @,
              !.file = ConfigFile(content, c.clock),
              !.live = load_config(@, content),
              !.op = "save", !.ok = validate_content(content), !.content = content,
              !.create_backup = create_backup, !.saves = @ + 1]

\* Config.save
save(c, content, create_backup) ==
    IF ~validate_content(content)
       THEN [c EXCEPT !.op = "save", !.ok = FALSE, !.content = content,
                      !.create_backup = create_backup, !.saves = @ + 1]
       ELSE [c EXCEPT !.backups = IF create_backup
                                     THEN write_backup(@, backup_stamp(c.clock),
                                                       c.file.content)
                                     ELSE @,
                      !.file = ConfigFile(content, c.clock),
                      !.live = load_config(@, content),
                      !.op = "save", !.ok = TRUE, !.content = content,
                      !.create_backup = create_backup, !.saves = @ + 1]

look_without_callback(watcher, stamp) ==
    [watcher EXCEPT !.cached_stamp = stamp]

\* Watcher.look when the stamp differs: the stamp is cached, the callback runs
look(watcher, stamp) ==
    [watcher EXCEPT !.cached_stamp = stamp, !.pc = "read"]

\* time passes
ConfTick ==
    /\ conf.clock < MaxClock
    /\ conf' = [conf EXCEPT !.clock = @ + 1, !.op = "tick"]
    /\ UNCHANGED <<ingest_vars, access_log, last_position, not_conf>>

\* somebody rewrites the configuration file
ConfWriteFile ==
    /\ conf.writes < MaxConfigWrites
    /\ \E i \in 1..Len(ConfigContents) :
          conf' = [conf EXCEPT !.file = ConfigFile(ConfigContents[i], conf.clock),
                               !.writes = @ + 1, !.op = "write"]
    /\ UNCHANGED <<ingest_vars, access_log, last_position, not_conf>>

\* POST /api/config
ConfSave ==
    /\ conf.saves < MaxSaves
    /\ \E i \in 1..Len(ConfigContents), create_backup \in BOOLEAN :
          conf' = save(conf, ConfigContents[i], create_backup)
    /\ UNCHANGED <<ingest_vars, access_log, last_position, not_conf>>

\* the poll finds a stamp other than the cached one
WatcherLook ==
    /\ conf.watcher.pc = "sleep"
    /\ conf.file.mtime # conf.watcher.cached_stamp
    /\ conf' = [conf EXCEPT !.watcher = look(@, conf.file.mtime), !.op = "look"]
    /\ UNCHANGED <<ingest_vars, access_log, last_position, not_conf>>

\* load_config reads the file
WatcherRead ==
    /\ conf.watcher.pc = "read"
    /\ conf' = [conf EXCEPT !.watcher.read = conf.file.content,
                            !.watcher.pc = "assign", !.op = "read"]
    /\ UNCHANGED <<ingest_vars, access_log, last_position, not_conf>>

\* load_config parses what it read and assigns self._config; on_config_change
\* swallows the ConfigError and the loop goes on
WatcherAssign ==
    /\ conf.watcher.pc = "assign"
    /\ conf' = [conf EXCEPT !.live = load_config(@, conf.watcher.read),
                            !.watcher.pc = "sleep", !.op = "assign"]
    /\ UNCHANGED <<ingest_vars, access_log, last_position, not_conf>>

NextConf ==
    \/ ConfTick
    \/ ConfWriteFile
    \/ ConfSave
    \/ WatcherLook
    \/ WatcherRead
    \/ WatcherAssign

SpecConf == Init /\ [][NextConf]_vars

\* the watcher thread is scheduled again and again
SpecConfLive ==
    /\ SpecConf
    /\ WF_vars(WatcherLook) /\ WF_vars(WatcherRead) /\ WF_vars(WatcherAssign)

\* ----------------------------- Config.start_watching / stop_watching, Watcher
Callers == {1, 2}

\* Watcher.__init__: _running, the state of the thread behind _thread
\* ("none" when _thread is None), the holder of _lock (0 when free)
NewWatcher == [running |-> FALSE, thread |-> "none", lock |-> 0]

\* Watcher.start_watching, under the lock
watcher_start_watching(w) ==
    IF w.running THEN w ELSE [w EXCEPT !.running = TRUE, !.thread = "alive"]

\* Watcher.is_watching
watcher_is_watching(w) == w.running /\ w.thread = "alive"

\* Config.is_watching
is_watching(wt) == wt.ref # 0 /\ watcher_is_watching(wt.watchers[wt.ref])

OtherCallersIdle(wt, t) == \A u \in Callers \ {t} : wt.callers[u].pc = "idle"

\* a thread calls Config.start_watching
CallStart ==
    /\ watching.calls < MaxWatchCalls
    /\ \E t \in Callers :
          /\ watching.callers[t].pc = "idle"
          /\ watching' = [watching EXCEPT !.callers[t].pc = "start_check",
                                          !.calls = @ + 1, !.returned = 0, !.noop = FALSE,
                                          !.overlapped = @ \/ ~OtherCallersIdle(watching, t)]
    /\ UNCHANGED <<ingest_vars, access_log, last_position, not_watching>>

\* if self._watcher is not None: return
StartCheck ==
    /\ \E t \in Callers :
          /\ watching.callers[t].pc = "start_check"
          /\ watching' = [watching EXCEPT !.callers[t].pc =
                                             IF watching.ref # 0 THEN "idle" ELSE "start_create",
                                          !.returned = 0]
    /\ UNCHANGED <<ingest_vars, access_log, last_position, not_watching>>

\* self._watcher = Watcher(self.config_path, on_config_change)
StartCreate ==
    /\ \E t \in Callers :
          /\ watching.callers[t].pc = "start_create"
          /\ watching' = [watching EXCEPT !.watchers = Append(@, NewWatcher),
                                          !.ref = Len(watching.watchers) + 1,
                                          !.callers[t].pc = "start_inner",
                                          !.returned = 0]
    /\ UNCHANGED <<ingest_vars, access_log, last_position, not_watching>>

\* self._watcher.start_watching(): self._watcher is read again; None raises
\* AttributeError
StartInner ==
    /\ \E t \in Callers :
          /\ watching.callers[t].pc = "start_inner"
          /\ IF watching.ref = 0
                THEN watching' = [watching EXCEPT !.callers[t].pc = "idle", !.returned = 0]
                ELSE /\ watching.watchers[watching.ref].lock = 0
                     /\ watching' = [watching EXCEPT
                                        !.watchers[watching.ref] = watcher_start_watching(@),
                                        !.callers[t].pc = "idle", !.returned = 0]
    /\ UNCHANGED <<ingest_vars, access_log, last_position, not_watching>>

\* a thread calls Config.stop_watching
CallStop ==
    /\ watching.calls < MaxWatchCalls
    /\ \E t \in Callers :
          /\ watching.callers[t].pc = "idle"
          /\ watching' = [watching EXCEPT !.callers[t].pc = "stop_check",
                                          !.calls = @ + 1, !.returned = 0, !.noop = FALSE,
                                          !.overlapped = @ \/ ~OtherCallersIdle(watching, t)]
    /\ UNCHANGED <<ingest_vars, access_log, last_position, not_watching>>

\* if self._watcher is not None: ... else the call returns
StopCheck ==
    /\ \E t \in Callers :
          /\ watching.callers[t].pc = "stop_check"
          /\ watching' = [watching EXCEPT !.callers[t].pc =
                                             IF watching.ref # 0 THEN "stop_inner" ELSE "idle",
                                          !.returned = IF watching.ref # 0 THEN 0 ELSE t,
                                          !.stopped = 0,
                                          !.noop = (watching.ref = 0)]
    /\ UNCHANGED <<ingest_vars, access_log, last_position, not_watching>>

\* self._watcher.stop_watching(): self._watcher is read again; the lock is
\* taken, _running cleared; a live thread is joined with the lock held
StopInner ==
    /\ \E t \in Callers :
          /\ watching.callers[t].pc = "stop_inner"
          /\ IF watching.ref = 0
                THEN watching' = [watching EXCEPT !.callers[t].pc = "idle", !.returned = 0]
                ELSE /\ watching.watchers[watching.ref].lock = 0
                     /\ watching' = [watching EXCEPT
                           !.watchers[watching.ref] =
                               IF ~@.running THEN @
                               ELSE IF @.thread = "alive"
                                       THEN [@ EXCEPT !.running = FALSE, !.lock = t]
                                       ELSE [@ EXCEPT !.running = FALSE, !.thread = "none"],
                           !.callers[t] =
                               IF watching.watchers[watching.ref].running
                                    /\ watching.watchers[watching.ref].thread = "alive"
                                  THEN Caller("stop_join", watching.ref)
                                  ELSE Caller("stop_clear", watching.ref),
                           !.returned = 0]
    /\ UNCHANGED <<ingest_vars, access_log, last_position, not_watching>>

\* self._thread.join() returns; self._thread = None; the lock is released
StopJoin ==
    /\ \E t \in Callers :
          /\ watching.callers[t].pc = "stop_join"
          /\ watching.watchers[watching.callers[t].w].thread = "ended"
          /\ watching' = [watching EXCEPT
                             !.watchers[watching.callers[t].w] =
                                 [@ EXCEPT !.thread = "none", !.lock = 0],
                             !.callers[t].pc = "stop_clear", !.returned = 0]
    /\ UNCHANGED <<ingest_vars, access_log, last_position, not_watching>>

\* self._watcher = None, and Config.stop_watching returns
StopClear ==
    /\ \E t \in Callers :
          /\ watching.callers[t].pc = "stop_clear"
          /\ watching' = [watching EXCEPT !.ref = 0,
                                          !.callers[t] = Caller("idle", 0),
                                          !.returned = t,
                                          !.stopped = watching.callers[t].w]
    /\ UNCHANGED <<ingest_vars, access_log, last_position, not_watching>>

\* _watch_loop leaves "while self._running" and the thread ends
WorkerExit ==
    /\ \E i \in 1..Len(watching.watchers) :
          /\ watching.watchers[i].thread = "alive"
          /\ ~watching.watchers[i].running
          /\ watching' = [watching EXCEPT !.watchers[i].thread = "ended", !.returned = 0]
    /\ UNCHANGED <<ingest_vars, access_log, last_position, not_watching>>

NextWatching ==
    \/ CallStart
    \/ StartCheck
    \/ StartCreate
    \/ StartInner
    \/ CallStop
    \/ StopCheck
    \/ StopInner
    \/ StopJoin
    \/ StopClear
    \/ WorkerExit

SpecWatching == Init /\ [][NextWatching]_vars

\* --------------------------------------------------- BatchProcessor (batch.py)
BatchTapNames == {BatchTaps[i] : i \in 1..Len(BatchTaps)}

\* the taps whose request reaches the access log
LoggedTaps == <<"a.json">>

\* BatchProcessor.signal_handler, without its effect
signal_handler_logs_only(b) ==
    [b EXCEPT !.signalled = TRUE, !.signal_pc = b.pc]

\* BatchProcessor.signal_handler
signal_handler(b) ==
    [b EXCEPT !.running = FALSE, !.shutdown_event = TRUE,
              !.signalled = TRUE, !.signal_pc = b.pc]

\* BatchProcessor.wait_or_shutdown: Event.wait returns True at once when the
\* event is set, False when the timeout has passed
wait_or_shutdown(b) == b.shutdown_event

\* BatchProcessor.get_tap_files: the .json files of the folder by creation
\* time, at most max_files_per_batch of them
get_tap_files(b) ==
    SubSeq(SelectSeq(b.written, LAMBDA t : b.content[t] \in {"tap", "broken"}),
           1, Min(max_files_per_batch,
                  Len(SelectSeq(b.written, LAMBDA t : b.content[t] \in {"tap", "broken"}))))

create_batch_id_same_count(b) ==
    [b EXCEPT !.batch_id = <<b.clock, b.next_batch_count>>,
              !.batch_ids = Append(@, <<b.clock, b.next_batch_count>>),
              !.created_after_signal = IF b.signalled THEN @ + 1 ELSE @]

\* BatchProcessor.create_batch_id: "batch_" + now().isoformat() + "_" + count
create_batch_id(b) ==
    [b EXCEPT !.batch_id = <<b.clock, b.next_batch_count>>,
              !.batch_ids = Append(@, <<b.clock, b.next_batch_count>>),
              !.next_batch_count = @ + 1,
              !.created_after_signal = IF b.signalled THEN @ + 1 ELSE @]

\* BatchProcessor.extract_request_id_from_tap: the x-request-id of the tap,
\* NONE when the file does not parse
batch_extract_request_id(b, tap_file) ==
    IF b.content[tap_file] = "tap" THEN tap_file ELSE NONE

\* HttpAccessLogReader.get_log_entry
get_log_entry(b, request_id) == request_id # NONE /\ request_id \in b.entries

\* datetime.now() - ignored_since > timedelta(seconds=IGNORED_TAP_TIMEOUT_SECONDS)
ignored_timed_out(b, tap_id) ==
    b.clock - (IF b.ignored_taps[tap_id] = NotIgnored THEN b.clock
               ELSE b.ignored_taps[tap_id]) > IGNORED_TAP_TIMEOUT_SECONDS

\* the tap is skipped: self.ignored_taps[tap_id] = ignored_since; continue
ignore_tap(b, tap_id) ==
    [b EXCEPT !.ignored_taps[tap_id] = IF @ = NotIgnored THEN b.clock ELSE @,
              !.last_skipped = @ \cup {tap_id}]

\* process_tap_file, remove_log_entry, ignored_taps.pop, processed.append
batch_process_tap(b, tap_id, timed_out) ==
    [b EXCEPT !.rows[tap_id] = @ + 1,
              !.entries = @ \ {tap_id},
              !.ignored_taps[tap_id] = NotIgnored,
              !.last_processed = Append(@, tap_id),
              !.last_timed_out = IF timed_out THEN @ \cup {tap_id} ELSE @]

\* BatchProcessor.archive_batch and the os.remove of every processed file
archive_batch(b) ==
    IF b.last_processed = <<>> THEN b
    ELSE [b EXCEPT !.archives = Append(@, [batch_id |-> b.batch_id,
                                           members |-> b.last_processed]),
                   !.content = [t \in BatchTapNames |->
                                   IF \E i \in 1..Len(b.last_processed) :
                                         b.last_processed[i] = t
                                      THEN "removed" ELSE @[t]]]

\* the loop of BatchProcessor.process_batch over tap_files[i..]: json.load
\* in process_tap_file raises on a file that does not parse, and the
\* exception leaves process_batch before the archive is written
RECURSIVE process_batch_loop(_, _, _)
process_batch_loop(b, tap_files, i) ==
    IF i > Len(tap_files) THEN archive_batch(b)
    ELSE IF get_log_entry(b, batch_extract_request_id(b, tap_files[i]))
            THEN process_batch_loop(batch_process_tap(b, tap_files[i], FALSE),
                                    tap_files, i + 1)
    ELSE IF ~ignored_timed_out(b, tap_files[i])
            THEN process_batch_loop(ignore_tap(b, tap_files[i]), tap_files, i + 1)
    ELSE IF b.content[tap_files[i]] = "broken"
            THEN [b EXCEPT !.batch_raised = TRUE]
    ELSE process_batch_loop(batch_process_tap(b, tap_files[i], TRUE), tap_files, i + 1)

\* BatchProcessor.process_batch
process_batch(b, tap_files) ==
    process_batch_loop([b EXCEPT !.last_skipped = {}, !.last_processed = <<>>,
                                 !.last_timed_out = {}, !.batch_raised = FALSE],
                       tap_files, 1)

\* SIGINT or SIGTERM is delivered to the main thread
BatchSignal ==
    /\ ~batch.signalled
    /\ batch.pc # "exited"
    /\ batch' = signal_handler(batch)
    /\ UNCHANGED <<ingest_vars, access_log, last_position, not_batch>>

\* while self.running
BatchLoopTest ==
    /\ batch.pc = "while"
    /\ ~batch.running \/ batch.next_batch_count <= MaxBatchIds
    /\ batch' = [batch EXCEPT !.pc = IF batch.running THEN "list" ELSE "exited"]
    /\ UNCHANGED <<ingest_vars, access_log, last_position, not_batch>>

\* tap_files = self.get_tap_files(); if not tap_files: wait
BatchListTaps ==
    /\ batch.pc = "list"
    /\ batch' = [batch EXCEPT !.tap_files = get_tap_files(batch),
                              !.pc = IF get_tap_files(batch) = <<>> THEN "wait_none"
                                     ELSE "create"]
    /\ UNCHANGED <<ingest_vars, access_log, last_position, not_batch>>

\* batch_id = self.create_batch_id()
BatchCreateId ==
    /\ batch.pc = "create"
    /\ batch' = [create_batch_id(batch) EXCEPT !.pc = "process"]
    /\ UNCHANGED <<ingest_vars, access_log, last_position, not_batch>>

\* processed_count = self.process_batch(batch_id, tap_files)
BatchProcess ==
    /\ batch.pc = "process"
    /\ batch' = [process_batch(batch, batch.tap_files) EXCEPT
                    !.tap_files = <<>>,
                    !.pc = IF process_batch(batch, batch.tap_files).batch_raised
                              THEN "wait_error" ELSE "after"]
    /\ UNCHANGED <<ingest_vars, access_log, last_position, not_batch>>

\* if self.running: wait_or_shutdown(SLEEP_BETWEEN_BATCHES)
BatchAfter ==
    /\ batch.pc = "after"
    /\ batch' = [batch EXCEPT !.pc = IF batch.running THEN "wait_batch" ELSE "while"]
    /\ UNCHANGED <<ingest_vars, access_log, last_position, not_batch>>

\* wait_or_shutdown returns: break when the event is set
BatchWaitReturns ==
    /\ batch.pc \in {"wait_none", "wait_batch", "wait_error"}
    /\ batch' = [batch EXCEPT !.pc = IF wait_or_shutdown(batch) THEN "exited" ELSE "while"]
    /\ UNCHANGED <<ingest_vars, access_log, last_position, not_batch>>

\* the proxy writes a tap file; a file cut short does not parse
BatchTapWritten ==
    /\ \E i \in 1..Len(BatchTaps), kind \in {"tap", "broken"} :
          /\ batch.content[BatchTaps[i]] = "none"
          /\ batch' = [batch EXCEPT !.content[BatchTaps[i]] = kind,
                                    !.written = Append(@, BatchTaps[i])]
    /\ UNCHANGED <<ingest_vars, access_log, last_position, not_batch>>

\* read_new_entries has found the log entry of a tap
BatchLogEntry ==
    /\ \E i \in 1..Len(LoggedTaps) :
          /\ batch.content[LoggedTaps[i]] \in {"none", "tap"}
          /\ batch.rows[LoggedTaps[i]] = 0
          /\ LoggedTaps[i] \notin batch.entries
          /\ batch' = [batch EXCEPT !.entries = @ \cup {LoggedTaps[i]}]
    /\ UNCHANGED <<ingest_vars, access_log, last_position, not_batch>>

\* the wall clock read by datetime.now() moves, forward or back
BatchClock ==
    /\ batch.clock_changes < MaxClockChanges
    /\ \E i \in 1..Len(BatchTimes) :
          /\ BatchTimes[i] # batch.clock
          /\ batch' = [batch EXCEPT !.clock = BatchTimes[i], !.clock_changes = @ + 1]
    /\ UNCHANGED <<ingest_vars, access_log, last_position, not_batch>>

NextBatch ==
    \/ BatchSignal
    \/ BatchLoopTest
    \/ BatchListTaps
    \/ BatchCreateId
    \/ BatchProcess
    \/ BatchAfter
    \/ BatchWaitReturns
    \/ BatchTapWritten
    \/ BatchLogEntry
    \/ BatchClock

SpecBatch == Init /\ [][NextBatch]_vars

\* the main thread keeps running the loop
SpecBatchLive ==
    /\ SpecBatch
    /\ WF_vars(BatchLoopTest) /\ WF_vars(BatchListTaps) /\ WF_vars(BatchCreateId)
    /\ WF_vars(BatchProcess) /\ WF_vars(BatchAfter) /\ WF_vars(BatchWaitReturns)

\* ------------------------------------------------ HttpTapProcessor.process_tap
\* The taps and access-log entries process_tap is called with.
HostBadPort == <<"s", ":", "x">>
Host90 == <<"s", ":", "9", "0">>
LineR1Query == ObjLine("r1", Host8080, PathAQuery)
LineR1BadPort == ObjLine("r1", HostBadPort, PathA)
LineR2Port90 == ObjLine("r2", Host90, PathAQuery)
HttpTapMenu == <<"t1.json", "t2.json">>
HttpEntryMenu == <<LineR1, LineR1Query, LineR2, LineR2NoPort, LineR1BadPort, LineR2Port90>>

\* the full_path and port process_tap derives from a tap and its log entry
tap_full_path(data, log_entry) ==
    IF log_entry.path # <<>> THEN log_entry.path ELSE data.path_header
tap_port(log_entry) == try_get_port_from_upstream_host(log_entry.upstream_host)

\* self.sessions.add_request(port=port, request_id=request_id, ...) is the
\* last write of the "if port:" block
process_tap_sessions(calls, done, port) ==
    IF PortKnown(port) /\ ~done.raised
       THEN Append(calls, <<port, Len(done.tx.http_request)>>)
       ELSE calls

\* one call of process_tap inside the caller's transaction; the rows written
\* before an exception stay in the transaction
process_tap_call(h, tap, log_entry, fail) ==
    LET done == process_tap(h.db, TapContent(tap), tap, "batch", log_entry, fail)
    IN [db |-> done.tx,
        session_calls |-> process_tap_sessions(h.session_calls, done, tap_port(log_entry)),
        ingests |-> Append(h.ingests,
                           [tap |-> tap, port |-> tap_port(log_entry),
                            full_path |-> tap_full_path(TapContent(tap), log_entry),
                            is_blocked |-> TapContent(tap).x_blocked,
                            raised |-> done.raised])]

HttpProcessTap ==
    /\ Len(http.ingests) < MaxHttpIngests
    /\ \E t \in 1..Len(HttpTapMenu), e \in 1..Len(HttpEntryMenu), fail \in FailPoints :
           http' = process_tap_call(http, HttpTapMenu[t], HttpEntryMenu[e], fail)
    /\ UNCHANGED <<ingest_vars, access_log, last_position, not_http>>

NextHttp ==
    \/ HttpProcessTap

SpecHttp == Init /\ [][NextHttp]_vars

\* ------------------------------------------------------ fetch_raw_request
\* The answer is [kind, data]: "none" for None, "error" for the error dict,
\* "json" for the parsed member.  An archive is [batch_id, members]; the
\* member named after a tap file holds the JSON of that tap.
RawAnswer(kind, data) == [kind |-> kind, data |-> data]

\* from tap_filename = f"{tap_id}.json" on, for the archive found
fetch_member(archive, tap_id) ==
    IF (tap_id \o ".json") \in archive.members
       THEN RawAnswer("json", TapContent(tap_id \o ".json"))
       ELSE RawAnswer("error", NoData)

\* from the archive_file path on, for the row found
fetch_from_archive(archive_folder, row) ==
    IF \A a \in archive_folder : a.batch_id # row.batch_id
       THEN RawAnswer("error", NoData)
       ELSE fetch_member(CHOOSE a \in archive_folder : a.batch_id = row.batch_id,
                         row.tap_id)

fetch_raw_request(request_id, store, archive_folder) ==
    IF \A i \in 1..Len(store.http_request) : store.http_request[i].id # request_id
       THEN RawAnswer("none", NoData)
       ELSE fetch_from_archive(
                archive_folder,
                store.http_request[CHOOSE i \in 1..Len(store.http_request) :
                                       store.http_request[i].id = request_id])

\* ------------------------------------------------------------------ claims
IsCycleStep == last_run'.batch_id # last_run.batch_id

EntryIds(entries) == {entries[i].data.stream_id : i \in 1..Len(entries)}
RequestIdOf(name) == TapContent(name).request_id
RowsOfTap(store, name) ==
    {i \in 1..Len(store.http_request) : store.http_request[i].tap_id = name}

\* C1: a tap that was loaded into the cache and whose request id is carried
\* by no access-log entry read in a cycle survives that cycle: it stays in
\* the cache, is not scheduled for removal, is not deleted, is not returned
\* in to_archive and gets no Store row.
C1_UnmatchedTapRetained ==
    [][IsCycleStep =>
        \A name \in JsonFiles :
            ( /\ name \in DOMAIN last_run'.refreshed.cache
              /\ RequestIdOf(name) \notin EntryIds(last_run'.new_entries) )
            => /\ name \in DOMAIN cache'
               /\ name \notin to_remove'
               /\ name \notin last_run'.removed
               /\ tap_dir'[name] = "complete"
               /\ name \notin last_run'.to_archive
               /\ RowsOfTap(db', name) = RowsOfTap(db, name)]_vars

\* a tap is still cached after a second or later cycle that read entries, none for it
W_C1 ==
    \E name \in JsonFiles :
        /\ last_run.batch_id >= 2
        /\ last_run.new_entries # <<>>
        /\ RequestIdOf(name) \notin EntryIds(last_run.new_entries)
        /\ name \in DOMAIN last_run.refreshed.cache
        /\ name \in DOMAIN cache
        /\ tap_dir[name] = "complete"

\* C2 as stated: a cycle that read entries leaves the sidecar at the end
\* position of the last entry read, and no cycle reads again a line that an
\* earlier cycle read without matching a tap.
C2_OffsetPassesUnmatchedEntries ==
    [][IsCycleStep =>
        /\ last_run'.new_entries # <<>> =>
              LET last == last_run'.new_entries[Len(last_run'.new_entries)]
              IN /\ pos_file'.exists
                 /\ read_last_processed_position(pos_file') = last.end_position
        /\ \A i \in 1..Len(last_run'.new_entries) :
              last_run'.new_entries[i].lineno \notin unmatched]_vars

\* C2 amended: a cycle that returns without raising after reading entries
\* leaves the sidecar at the end position of the last entry read, matched or
\* not; and no cycle reads again a line that an earlier cycle that returned
\* without raising read without matching a tap.
C2_CompletedCyclePassesUnmatchedEntries ==
    [][IsCycleStep =>
        /\ (~last_run'.raised /\ last_run'.new_entries # <<>>) =>
              LET last == last_run'.new_entries[Len(last_run'.new_entries)]
              IN /\ pos_file'.exists
                 /\ read_last_processed_position(pos_file') = last.end_position
                 /\ last.end_position = LineEnd(access_log, last.lineno)
        /\ \A i \in 1..Len(last_run'.new_entries) :
              last_run'.new_entries[i].lineno \notin lost]_vars

\* a line was lost although its tap is now in the cache
W_C2 ==
    \E n \in lost, name \in JsonFiles :
        /\ access_log[n].stream_id = RequestIdOf(name)
        /\ name \in DOMAIN cache
        /\ read_last_processed_position(pos_file) >= LineEnd(access_log, n)

\* C3: a tap whose processing raised is left in the spool: still on disk
\* and cached after the cycle, and not returned in to_archive.
C3_FailedTapLeftInSpool ==
    \A name \in last_run.errors :
        /\ tap_dir[name] = "complete"
        /\ name \in DOMAIN cache
        /\ name \notin last_run.to_archive

\* C4: once a cycle is committed the Store holds no row of a tap whose
\* processing raised, and holds the rows of every other tap of the cycle.
C4_PerTapAtomicity ==
    last_run.committed =>
        /\ \A name \in last_run.errors : RowsOfTap(db, name) = {}
        /\ \A name \in last_run.consumed \ last_run.errors : RowsOfTap(db, name) # {}

\* C5: a tap file that was removed from the directory (and was not given up
\* as unloadable) is a member of a written archive.
C5_RemovedOnlyWhenArchived ==
    \A name \in JsonFiles :
        (tap_dir[name] = "removed" /\ name \notin given_up)
        => \E a \in archives : name \in a.members

StatOf(store, p, counter) ==
    IF p \in DOMAIN store.service_stats THEN store.service_stats[p][counter] ELSE 0
RowsOfCycle(store, p, batch_id) ==
    {i \in 1..Len(store.http_request) :
        store.http_request[i].port = p /\ store.http_request[i].batch_id = batch_id}
C7_CounterAccounting ==
    [][IsCycleStep =>
        \A p \in {db'.http_request[i].port : i \in 1..Len(db'.http_request)} \ {0} :
            LET reqs == RowsOfCycle(db', p, last_run'.batch_id)
                flags == 1..Len(db'.flag)
            IN /\ StatOf(db', p, "total_requests") =
                     StatOf(db, p, "total_requests") + Cardinality(reqs)
               /\ StatOf(db', p, "total_blocked_requests") =
                     StatOf(db, p, "total_blocked_requests")
                     + Cardinality({i \in reqs : db'.http_request[i].is_blocked})
               /\ StatOf(db', p, "total_flags_written") =
                     StatOf(db, p, "total_flags_written")
                     + Cardinality({j \in flags : db'.flag[j].http_request_id \in reqs})
               /\ StatOf(db', p, "total_flags_retrieved") =
                     StatOf(db, p, "total_flags_retrieved")
                     + Cardinality({j \in flags :
                          /\ db'.flag[j].http_response_id # 0
                          /\ db'.http_response[db'.flag[j].http_response_id].request_id
                                \in reqs})]_vars

\* C8: every (port, path) row of http_path_stats has exactly one "New path"
\* alert, and there is no such alert without the row.
AlertKey(a) == <<a.port, urlparse_path(a.description)>>
C8_OneAlertPerNewPath ==
    /\ \A key \in DOMAIN db.http_path_stats :
          Cardinality({i \in 1..Len(db.alert) : AlertKey(db.alert[i]) = key}) = 1
    /\ \A i \in 1..Len(db.alert) : AlertKey(db.alert[i]) \in DOMAIN db.http_path_stats

C10_PresentFileIndexedOrScheduled ==
    last_run.batch_id > 0 =>
        \A name \in last_run.listing :
            \/ /\ name \in DOMAIN last_run.refreshed.cache
               /\ RequestIdOf(name) \in DOMAIN last_run.refreshed.request_id_to_file
            \/ name \in last_run.refreshed.to_remove

\* C10 amended: right after refresh() every file present is cached, or
\* scheduled for removal, or a .json file with 1..max_load_retries-1 failed
\* loads on record; a cached tap that has a key and is the only one to carry
\* it is indexed under that key.
SoleCarrier(name) ==
    /\ RequestIdOf(name) # NONE
    /\ \A other \in JsonFiles \ {name} :
          RequestIdOf(other) = RequestIdOf(name) => tap_dir[other] = "absent"
C10_PresentFileCachedScheduledOrRetrying ==
    last_run.batch_id > 0 =>
        LET R == last_run.refreshed
        IN \A name \in last_run.listing :
            \/ /\ name \in DOMAIN R.cache
               /\ SoleCarrier(name) =>
                     /\ RequestIdOf(name) \in DOMAIN R.request_id_to_file
                     /\ R.request_id_to_file[RequestIdOf(name)] = name
            \/ name \in R.to_remove
            \/ /\ endswith_json(name)
               /\ name \notin DOMAIN R.cache
               /\ R.failed_to_load[name] \in 1..(max_load_retries - 1)

\* after one refresh(): a cached tap, a scheduled file and a tap awaiting a retry
W_C10 ==
    /\ last_run.batch_id > 0
    /\ \E name \in last_run.listing : name \in DOMAIN last_run.refreshed.cache
    /\ \E name \in last_run.listing : name \in last_run.refreshed.to_remove
    /\ \E name \in last_run.listing :
          /\ name \notin DOMAIN last_run.refreshed.cache
          /\ name \notin last_run.refreshed.to_remove

\* the line numbers of the complete, well-formed entries of a log, in file order
RECURSIVE ObjectLineNos(_, _)
ObjectLineNos(log, i) ==
    IF i > Len(log) THEN <<>>
    ELSE IF log[i].kind \in {"object", "nonobject"}
        THEN <<i>> \o ObjectLineNos(log, i + 1)
        ELSE ObjectLineNos(log, i + 1)

\* C11: over the calls of one reader, the lines returned so far are always
\* the first entries of the log in file order, each once; a call adds the
\* next max_entries of them (or all that are left), and blank, malformed and
\* incomplete lines are never returned.
C11_TailedExactlyOnce ==
    [][tail'.calls # tail.calls =>
        \E n \in {IF Len(tail.returned) + tail'.max_entries
                        < Len(ObjectLineNos(access_log, 1))
                     THEN Len(tail.returned) + tail'.max_entries
                     ELSE Len(ObjectLineNos(access_log, 1))} :
            /\ tail'.returned = SubSeq(ObjectLineNos(access_log, 1), 1, n)
            /\ \A k \in 1..n :
                  LineEnd(access_log, tail'.returned[k]) <= last_position']_vars

\* a call cut short by max_entries = 1 came after lines that are skipped, and
\* three entries were returned over at least three calls
W_C11 ==
    /\ tail.calls >= 3
    /\ tail.max_entries = 1
    /\ Len(tail.returned) = 3
    /\ \E i \in 1..Len(access_log) :
          access_log[i].kind \in {"blank", "malformed"} /\ i < tail.returned[3]

\* C12: a cycle writes the sidecar only when its pass over the entries read
\* has finished (the decimal end position of the last entry); a cycle whose
\* pass aborts leaves the sidecar as it was.  A reader started afterwards
\* resumes at the sidecar value, 0 when the sidecar is absent or unparsable:
\* right behind the last entry of the completed passes, hence before every
\* entry of an aborted pass.
C12_SidecarWrittenAfterPass ==
    [][/\ IsCycleStep =>
            pos_file' = IF ~last_run'.raised /\ last_run'.new_entries # <<>>
                           THEN [exists |-> TRUE,
                                 text |-> DecimalString(
                                     last_run'.new_entries[
                                         Len(last_run'.new_entries)].end_position)]
                           ELSE pos_file
       /\ restarts' # restarts =>
            /\ last_position' = IF pos_file.exists /\ pos_file.text # <<>>
                                   THEN DecimalValue(pos_file.text)
                                   ELSE 0
            /\ last_position' = LineEnd(access_log, last_run.passed)
            /\ last_run.raised =>
                  \A k \in 1..Len(last_run.new_entries) :
                      last_position' <= LineEnd(access_log,
                                                last_run.new_entries[k].lineno - 1)]_vars

\* a pass over line 2 aborted after a pass over line 1 had completed, and a
\* reader started afterwards stands right behind line 1
W_C12 ==
    /\ restarts > 0
    /\ last_run.raised
    /\ last_run.new_entries # <<>>
    /\ last_run.passed > 0
    /\ pos_file.exists
    /\ last_position = DecimalValue(pos_file.text)
    /\ last_position = LineEnd(access_log, last_run.passed)

MatchableEntries(run) ==
    {k \in 1..Len(run.new_entries) :
        /\ run.new_entries[k].data.kind = "object"
        /\ run.new_entries[k].data.stream_id \in DOMAIN run.refreshed.request_id_to_file
        /\ \A j \in 1..(k - 1) :
              run.new_entries[j].data.stream_id # run.new_entries[k].data.stream_id}

\* C14: in a cycle in which process_tap raised for some tap (and every entry
\* read is a JSON object) the call does not raise; every entry that has a
\* tap in the index is matched, its tap is taken and, unless it is a tap
\* whose processing raised, has its rows in the Store; the sidecar holds the
\* end position of the last entry; cleanup() has deleted the taken taps.
C14_TapErrorDoesNotHaltCycle ==
    (/\ last_run.errors # {}
     /\ \A k \in 1..Len(last_run.new_entries) :
           last_run.new_entries[k].data.kind = "object")
    => /\ ~last_run.raised
       /\ \A k \in MatchableEntries(last_run) :
             /\ last_run.new_entries[k].lineno \in last_run.matched
             /\ \E name \in last_run.consumed :
                   /\ RequestIdOf(name) = last_run.new_entries[k].data.stream_id
                   /\ name \notin last_run.errors => RowsOfTap(db, name) # {}
       /\ pos_file = [exists |-> TRUE,
                      text |-> DecimalString(
                          last_run.new_entries[Len(last_run.new_entries)].end_position)]
       /\ last_run.consumed \subseteq last_run.removed
       /\ \A name \in last_run.consumed : tap_dir[name] = "removed"

\* the tap of the first entry raised and the tap of the second entry of the
\* same cycle was processed
W_C14 ==
    /\ Len(last_run.new_entries) = 2
    /\ \E a \in last_run.errors, b \in last_run.consumed \ last_run.errors :
          /\ RequestIdOf(a) = last_run.new_entries[1].data.stream_id
          /\ RequestIdOf(b) = last_run.new_entries[2].data.stream_id
          /\ RowsOfTap(db, b) # {}
          /\ tap_dir[b] = "removed"
    /\ pos_file.exists /\ pos_file.text # <<>>

\* C15: for every http_request row whose tap is a member of the archive of
\* the row's batch, fetch_raw_request(id) returns the JSON of that tap.
C15_RawEvidenceRoundTrip ==
    \A i \in 1..Len(db.http_request) :
        (\E a \in archives : /\ a.batch_id = db.http_request[i].batch_id
                             /\ db.http_request[i].tap_id \in a.members)
        => fetch_raw_request(db.http_request[i].id, db, archives)
              = RawAnswer("json", TapContent(db.http_request[i].tap_id))

\* a counter of the service_stats row of a port, 0 where there is none
ServiceCounter(table, p, counter) ==
    IF p \in DOMAIN table /\ counter \in DOMAIN table[p] THEN table[p][counter] ELSE 0

\* the flags in the events of one direction
RECURSIVE FlagsOfKind(_, _)
FlagsOfKind(events, kind) ==
    IF events = <<>> THEN 0
    ELSE FlagsOfKind(Tail(events), kind)
         + (IF Head(events).kind = kind
               THEN Cardinality({k \in 1..Len(Head(events).data) :
                                    Head(events).data[k] = "F"})
               ELSE 0)

\* C16: processing a TCP tap whose log entry has a known port p adds 1 to
\* total_tcp_connections of service_stats(p), the log's bytes_in and
\* bytes_out to total_tcp_bytes_in and total_tcp_bytes_out, the flags of the
\* write events to total_flags_written and the flags of the read events to
\* total_flags_retrieved.
C16_TcpCounterAccounting ==
    [][tcp'.taps # tcp.taps =>
        \A p \in {try_get_port_from_upstream_host(tcp'.log_entry.upstream_host)} :
            PortKnown(p) =>
              /\ ServiceCounter(tcp'.store.service_stats, p, "total_tcp_connections")
                   = ServiceCounter(tcp.store.service_stats, p, "total_tcp_connections") + 1
              /\ ServiceCounter(tcp'.store.service_stats, p, "total_tcp_bytes_in")
                   = ServiceCounter(tcp.store.service_stats, p, "total_tcp_bytes_in")
                     + tcp'.log_entry.bytes_in
              /\ ServiceCounter(tcp'.store.service_stats, p, "total_tcp_bytes_out")
                   = ServiceCounter(tcp.store.service_stats, p, "total_tcp_bytes_out")
                     + tcp'.log_entry.bytes_out
              /\ ServiceCounter(tcp'.store.service_stats, p, "total_flags_written")
                   = ServiceCounter(tcp.store.service_stats, p, "total_flags_written")
                     + FlagsOfKind(tcp'.data.events, "write")
              /\ ServiceCounter(tcp'.store.service_stats, p, "total_flags_retrieved")
                   = ServiceCounter(tcp.store.service_stats, p, "total_flags_retrieved")
                     + FlagsOfKind(tcp'.data.events, "read")]_vars

\* C17: for every session (port, key) the stored count equals the number of
\* session_link rows of that session.
C17_SessionCountIsLinkCount ==
    \A sk \in DOMAIN session_db.session :
        session_db.session[sk].count =
            Cardinality({l \in session_db.session_link :
                            l[1] = session_db.session[sk].id})

\* C18: for every link the last get_links call returned, the two requests
\* were added with the same port and carry the same session key (in their
\* request cookies or in their response cookies), and the start_time of the
\* from request is strictly earlier than that of the to request.
AddedIn(request_id) ==
    get_session(session_storage.added[request_id].request_headers, "cookie", 1)
AddedOut(request_id) ==
    get_session(session_storage.added[request_id].response_headers, "set-cookie", 1)
C18_LinkEndpointsShareSessionInTimeOrder ==
    \A k \in 1..Len(session_storage.links) :
        \E from \in {session_storage.links[k].from_request_id},
           to \in {session_storage.links[k].to_request_id} :
            /\ from \in 1..Len(session_storage.added)
            /\ to \in 1..Len(session_storage.added)
            /\ session_storage.added[from].port = session_storage.added[to].port
            /\ \/ AddedIn(from) # NONE /\ AddedIn(from) = AddedIn(to)
               \/ AddedOut(from) # NONE /\ AddedOut(from) = AddedOut(to)
            /\ session_storage.added[from].start_time
                  < session_storage.added[to].start_time

\* one call returned a link to an earlier and a link to a later request, and
\* one of the links goes from a request that was added after its target
W_C18 ==
    /\ Len(session_storage.links) = 2
    /\ \E k \in 1..2 :
          session_storage.links[k].from_request_id
              > session_storage.links[k].to_request_id

\* count of http_request_time_stats(p, m), 0 where there is no row
RequestTimeCount(store, p, m) ==
    IF <<p, m>> \in DOMAIN store.http_request_time_stats
       THEN store.http_request_time_stats[<<p, m>>] ELSE 0

\* C19: for every port p and minute m, what a batch adds to the count of
\* http_request_time_stats(p, m) equals the number of http_request rows
\* committed in that batch with port p and
\* floor(start_time / 60000) * 60000 = m.
C19_MinuteBucketAccounting ==
    [][(IsCycleStep /\ last_run'.committed) =>
        \A i \in 1..Len(db'.http_request) :
          \E p \in {db'.http_request[i].port},
             m \in {(db'.http_request[i].start_time \div minute_ms) * minute_ms} :
            RequestTimeCount(db', p, m) - RequestTimeCount(db, p, m)
              = Cardinality({j \in RowsOfCycle(db', p, last_run'.batch_id) :
                    (db'.http_request[j].start_time \div minute_ms) * minute_ms = m})]_vars

\* the count of a key of a count table, 0 where there is no row
CountOf(table, key) == IF key \in DOMAIN table THEN table[key] ELSE 0

\* C20: an increment leaves the row of its key equal to the row before (all
\* zero when there was none) plus the delta, for every counter the delta
\* carries, also on the first touch of the key; and two increments of x
\* leave the same table as one increment of 2 * x.
C20_IncrementsAreExact ==
    [][counters'.calls # counters.calls =>
        /\ counters'.table = "service_stats" =>
              \A c \in IncrementCounters :
                 ServiceCounter(counters'.service_stats, counters'.key, c)
                   = ServiceCounter(counters.service_stats, counters'.key, c)
                     + counters'.delta[c]
        /\ counters'.table = "http_path_stats" =>
              CountOf(counters'.http_path_stats, counters'.key)
                = CountOf(counters.http_path_stats, counters'.key) + counters'.delta
        /\ counters'.table = "http_path_time_stats" =>
              CountOf(counters'.http_path_time_stats, counters'.key)
                = CountOf(counters.http_path_time_stats, counters'.key) + counters'.delta
        /\ counters'.table = "tcp_connection_stats" =>
              CountOf(counters'.tcp_connection_stats, counters'.key)
                = CountOf(counters.tcp_connection_stats, counters'.key) + counters'.delta
        /\ counters'.table = "service_stats" =>
              service_stats_increment(counters'.service_stats, counters'.delta)
                = service_stats_increment(counters.service_stats,
                                          ScaledIncrement(counters'.delta, 2))
        /\ counters'.table = "http_path_stats" =>
              http_path_stats_increment(counters'.http_path_stats, counters'.key[1],
                                        counters'.key[2], counters'.delta).table
                = http_path_stats_increment(counters.http_path_stats, counters'.key[1],
                                            counters'.key[2], 2 * counters'.delta).table
        /\ counters'.table = "http_path_time_stats" =>
              http_path_time_stats_increment(counters'.http_path_time_stats,
                                             counters'.key, counters'.delta).table
                = http_path_time_stats_increment(counters.http_path_time_stats,
                                                 counters'.key, 2 * counters'.delta).table
        /\ counters'.table = "tcp_connection_stats" =>
              count_increment(counters'.tcp_connection_stats, counters'.key,
                              counters'.delta)
                = count_increment(counters.tcp_connection_stats, counters'.key,
                                  2 * counters'.delta)]_vars

\* the request of the latest call reached execute_sql
SqlCalled == sql.calls > 0 /\ str_strip(sql.request) # <<>>

C22_TimeoutRaisesAndInterrupts ==
    (sql.at_timeout = "execute" /\ sql.main = "idle")
        => sql.answer.error = "TimeoutError" /\ sql.interrupted

\* C22: when the worker is alive at the is_alive() check after the join
\* timed out, execute_sql raises TimeoutError whatever the worker does
\* meanwhile; an interrupt issued while the statement runs reaches the
\* connection; the rows of a call answered with TimeoutError are never
\* returned; and an interrupted worker stops and closes its connection.
C22_AliveAtCheckRaisesTimeout ==
    /\ [][/\ (sql.main \in {"check_conn", "interrupt"} /\ sql'.main = "idle")
               => sql'.answer = Answer(408, "TimeoutError", -1)
          /\ (sql.main = "interrupt" /\ sql'.main = "idle" /\ sql.worker = "execute")
               => sql'.interrupted
          /\ (sql.answer.error = "TimeoutError" /\ sql'.calls = sql.calls)
               => sql'.answer = sql.answer]_vars
    /\ (sql.interrupted /\ sql.worker = "execute")
          ~> (sql.worker = "done" /\ sql.conn = "closed")

W_C22 ==
    /\ sql.at_timeout = "execute" /\ sql.answer.error = "TimeoutError"
    /\ sql.interrupted /\ sql.exception = "sqlite3.Error"
    /\ sql.worker = "done" /\ sql.conn = "closed"

\* C23: every execution started through POST /api/sql runs under a timeout
\* that is a number of seconds greater than 0 and at most 60.
C23_TimeoutInRange ==
    (sql.calls > 0 /\ sql.main # "idle")
        => /\ sql.timeout.kind = "number"
           /\ sql.timeout.number > 0
           /\ sql.timeout.number <= max_timeout

\* C24: an accepted query without a LIMIT clause is executed with
\* LIMIT default_limit appended and returns at most default_limit rows;
\* a query with its own LIMIT clause is executed unchanged.
C24_DefaultLimitApplied ==
    (SqlCalled /\ sql.main = "idle" /\ sql.answer.status = 200)
        => IF HasLimitClause(sql.request)
              THEN sql.query = strip_semicolons(str_strip(sql.request))
              ELSE /\ sql.query = strip_semicolons(str_strip(sql.request)) \o <<" ">>
                                     \o kw_LIMIT \o <<" ">> \o DecimalString(default_limit)
                   /\ sql.answer.rows <= default_limit

\* the token of a well-formed Authorization header
BearerToken(header) == SubSeq(header.value, Len(prefix_Bearer) + 1, Len(header.value))
BearerMatches(header, config) ==
    /\ header.present
    /\ str_startswith(header.value, prefix_Bearer)
    /\ config.loaded
    /\ hash_token(BearerToken(header)) = config.api_token_hash

C26_LiveConfigIsAValidatedModel ==
    [][/\ conf'.live.valid
       /\ conf'.live # conf.live
            => \/ conf'.op = "assign" /\ conf'.live = parse_config(conf.watcher.read)
               \/ conf'.op = "save" /\ conf'.live = parse_config(conf'.content)
       /\ (conf'.op = "assign" /\ conf'.saves = conf.saves /\ conf.watcher.pc = "assign"
             /\ ~validate_content(conf.watcher.read))
            => conf'.live = conf.live /\ conf'.watcher.pc = "sleep"]_vars

W_C26 ==
    /\ conf.op = "assign" /\ ~validate_content(conf.watcher.read)
    /\ conf.live = ConfigModel("a", 0) /\ conf.watcher.pc = "sleep"

\* C27 as stated: whenever the file holds valid content, the live config
\* eventually equals the parse of that content, unless the file is rewritten.
C27_ReloadIsLive ==
    \A i \in 1..Len(ConfigContents), mtime \in 1..MaxClock :
       (conf.file = ConfigFile(ConfigContents[i], mtime)
          /\ validate_content(ConfigContents[i]))
       ~> (conf.live = parse_config(ConfigContents[i])
             \/ conf.file # ConfigFile(ConfigContents[i], mtime))

\* C27: whenever the file holds valid content and a modification time other
\* than the one the watcher has cached, the live config eventually equals the
\* parse of that content, unless the file is rewritten.
C27_ReloadIsLiveWhenMtimeChanged ==
    \A i \in 1..Len(ConfigContents), mtime \in 1..MaxClock :
       (conf.file = ConfigFile(ConfigContents[i], mtime)
          /\ validate_content(ConfigContents[i])
          /\ conf.watcher.cached_stamp # mtime)
       ~> (conf.live = parse_config(ConfigContents[i])
             \/ conf.file # ConfigFile(ConfigContents[i], mtime))

W_C27 ==
    /\ conf.op = "assign" /\ conf.writes > 0
    /\ conf.file.content = ContentB /\ conf.live = parse_config(ContentB)
    /\ conf.watcher.cached_stamp = conf.file.mtime

\* C28: a save of content that fails validation reports failure and leaves
\* the configuration file, the backups and the live config as they were.
C28_InvalidSaveChangesNothing ==
    [][(conf'.saves # conf.saves /\ ~validate_content(conf'.content))
         => /\ ~conf'.ok
            /\ conf'.file = conf.file
            /\ conf'.backups = conf.backups
            /\ conf'.live = conf.live]_vars

W_C28 ==
    /\ conf.op = "save" /\ ~conf.ok /\ ~validate_content(conf.content)
    /\ conf.create_backup /\ conf.writes > 0

\* C29: a successful save with create_backup adds one new revision holding
\* the content the file had before the save, and no step changes or removes
\* a revision that exists.
C29_BackupsAreAppendOnly ==
    [][/\ \A stamp \in DOMAIN conf.backups :
             stamp \in DOMAIN conf'.backups /\ conf'.backups[stamp] = conf.backups[stamp]
       /\ (conf'.saves # conf.saves /\ conf'.ok /\ conf'.create_backup)
            => \E stamp \in DOMAIN conf'.backups :
                  /\ stamp \notin DOMAIN conf.backups
                  /\ conf'.backups[stamp] = conf.file.content
                  /\ DOMAIN conf'.backups = DOMAIN conf.backups \cup {stamp}]_vars

WorkerThreads(wt) == {i \in 1..Len(wt.watchers) : wt.watchers[i].thread = "alive"}

\* C30: at most one watcher worker thread is alive at any time; a
\* stop_watching that finds no watcher changes nothing; when stop_watching
\* returns, the worker it stopped has ended and is_watching() is false.
C30_AtMostOneWorkerThread ==
    [][/\ Cardinality(WorkerThreads(watching')) <= 1
       /\ (watching'.returned # 0 /\ watching'.noop)
            => /\ watching'.ref = watching.ref
               /\ watching'.watchers = watching.watchers
       /\ (watching'.returned # 0 /\ ~watching'.noop)
            => /\ watching'.watchers[watching'.stopped].thread # "alive"
               /\ ~is_watching(watching')]_vars

\* C31 as stated: after the shutdown signal no batch id is created, and the
\* loop eventually exits.
C31_NoNewBatchAfterSignal ==
    /\ [][batch.signalled => batch'.next_batch_count = batch.next_batch_count]_vars
    /\ (batch.signalled ~> batch.pc = "exited")

\* C31: after the shutdown signal the loop eventually exits; a batch in
\* progress is finished; a batch is started after the signal only when the
\* signal arrived between the loop test and create_batch_id of that pass, and
\* then only that one.
C31_LoopExitsAfterSignal ==
    /\ [][/\ batch'.created_after_signal <= 1
          /\ batch'.signal_pc \notin {"list", "create"}
               => batch'.created_after_signal = 0
          /\ (batch.signalled /\ batch.pc \in {"wait_none", "wait_batch", "wait_error"}
                /\ batch'.pc # batch.pc) => batch'.pc = "exited"
          /\ (batch.signalled /\ batch.pc = "process" /\ batch'.pc # "process")
               => batch' = [process_batch(batch, batch.tap_files) EXCEPT
                              !.pc = batch'.pc, !.tap_files = <<>>]
         ]_vars
    /\ (batch.signalled ~> batch.pc = "exited")

W_C31 ==
    /\ batch.signalled /\ batch.pc = "exited" /\ batch.signal_pc = "process"
    /\ Len(batch.archives) = 1 /\ batch.created_after_signal = 0

PairLess(x, y) == x[1] < y[1] \/ (x[1] = y[1] /\ x[2] < y[2])

\* C32 as stated: the batch ids of one runner, and the names of its archives,
\* are strictly increasing in creation order as pairs (iso_time, counter), and
\* the counter grows by one per batch id.
C32_BatchIdsIncreaseAsPairs ==
    /\ \A i, j \in 1..Len(batch.batch_ids) :
          i < j => PairLess(batch.batch_ids[i], batch.batch_ids[j])
    /\ \A i \in 1..Len(batch.batch_ids) : batch.batch_ids[i][2] = i
    /\ \A i, j \in 1..Len(batch.archives) :
          i < j => PairLess(batch.archives[i].batch_id, batch.archives[j].batch_id)

\* C32: the batch ids of one runner, and the names of its archives, are
\* pairwise distinct, their counters grow by exactly one per batch id created,
\* and two of them compare as pairs (iso_time, counter) in creation order
\* whenever the clock reading of the later one is not below the earlier one's.
C32_BatchIdsIncreaseByCounter ==
    /\ \A i, j \in 1..Len(batch.batch_ids) :
          i < j => /\ batch.batch_ids[i] # batch.batch_ids[j]
                   /\ batch.batch_ids[i][2] < batch.batch_ids[j][2]
                   /\ batch.batch_ids[i][1] <= batch.batch_ids[j][1]
                        => PairLess(batch.batch_ids[i], batch.batch_ids[j])
    /\ \A i \in 1..Len(batch.batch_ids) : batch.batch_ids[i][2] = i
    /\ batch.next_batch_count = Len(batch.batch_ids) + 1
    /\ \A i, j \in 1..Len(batch.archives) :
          i < j => /\ batch.archives[i].batch_id # batch.archives[j].batch_id
                   /\ batch.archives[i].batch_id[2] < batch.archives[j].batch_id[2]
    /\ \A i \in 1..Len(batch.archives) :
          \E k \in 1..Len(batch.batch_ids) : batch.archives[i].batch_id = batch.batch_ids[k]

W_C32 ==
    /\ Len(batch.batch_ids) >= 2 /\ Len(batch.archives) >= 1
    /\ batch.batch_ids[2][1] < batch.batch_ids[1][1]

Archived(b, t) ==
    \E k \in 1..Len(b.archives) :
       \E m \in 1..Len(b.archives[k].members) : b.archives[k].members[m] = t

\* C39: in a batch, a parseable tap file without a log entry that has been
\* ignored for at most IGNORED_TAP_TIMEOUT_SECONDS stays on disk, unprocessed
\* and unarchived; one ignored for longer is processed, archived and deleted.
C39_IgnoredTapIsConsumedAfterTimeout ==
    [][(batch.pc = "process" /\ batch'.pc # "process")
         => \A i \in 1..Len(batch.tap_files) :
               (batch.content[batch.tap_files[i]] = "tap"
                  /\ batch.tap_files[i] \notin batch.entries)
               => IF ignored_timed_out(batch, batch.tap_files[i])
                     THEN /\ batch'.content[batch.tap_files[i]] = "removed"
                          /\ batch'.rows[batch.tap_files[i]]
                               = batch.rows[batch.tap_files[i]] + 1
                          /\ Archived(batch', batch.tap_files[i])
                     ELSE /\ batch'.content[batch.tap_files[i]] = "tap"
                          /\ batch'.rows[batch.tap_files[i]]
                               = batch.rows[batch.tap_files[i]]
                          /\ batch'.ignored_taps[batch.tap_files[i]] # NotIgnored
                          /\ ~Archived(batch', batch.tap_files[i])]_vars

\* the files a refresh of spool sp tries to load and fails on
PendingUnloadable(sp, dir) ==
    {f \in Present(dir) : /\ endswith_json(f) /\ dir[f] # "complete"
                          /\ f \notin DOMAIN sp.cache /\ f \notin sp.to_remove}

\* C33 as stated: a second refresh of an unchanged directory leaves cache,
\* index, removal set and retry counters as the first one left them.
C33_RefreshIsIdempotent ==
    \A o1 \in ScanOrders, o2 \in ScanOrders :
       refresh(refresh(Spool, tap_dir, o1), tap_dir, o2) = refresh(Spool, tap_dir, o1)

SecondRefresh(r1, r2, dir) ==
    /\ r2.cache = r1.cache
    /\ r2.request_id_to_file = r1.request_id_to_file
    /\ PendingUnloadable(r1, dir) = {} => r2 = r1
    /\ \A f \in Files :
          IF f \in PendingUnloadable(r1, dir)
             THEN /\ r2.failed_to_load[f] = r1.failed_to_load[f] + 1
                  /\ f \in r2.to_remove <=> r2.failed_to_load[f] >= max_load_retries
             ELSE /\ r2.failed_to_load[f] = r1.failed_to_load[f]
                  /\ f \in r2.to_remove <=> f \in r1.to_remove

\* C33: a second refresh of an unchanged directory leaves the cache and the
\* index as the first one left them; it leaves the removal set and the retry
\* counters unchanged too when no .json file of the directory is still failing
\* to load; for each file that is, the second refresh adds one to its retry
\* counter and schedules it for removal when the counter reaches
\* max_load_retries.
C33_RefreshIsIdempotentOnLoadedFiles ==
    \A o1 \in ScanOrders, o2 \in ScanOrders :
       SecondRefresh(refresh(Spool, tap_dir, o1),
                     refresh(refresh(Spool, tap_dir, o1), tap_dir, o2), tap_dir)

W_C33 ==
    /\ \E f \in Files : f \in PendingUnloadable(Spool, tap_dir) /\ failed_to_load[f] = 1
    /\ \E f \in Files : f \in Present(tap_dir) /\ tap_dir[f] = "complete"
                          /\ f \notin DOMAIN cache
    /\ refresh(Spool, tap_dir, <<"junk.tmp", "t1.json", "t2.json", "t3.json", "t4.json">>) # Spool

\* ---------------------------------------------------------------- C34 .. C36
\* the process_tap calls so far that reached the "if port:" block for (port, path)
CountedIngests(port, path) ==
    {i \in 1..Len(http.ingests) :
        /\ http.ingests[i].port = port
        /\ urlparse_path(http.ingests[i].full_path) = path}
SameFullPathIngests(port, full_path) ==
    {i \in 1..Len(http.ingests) :
        http.ingests[i].port = port /\ http.ingests[i].full_path = full_path}
NoIngestRaised == \A i \in 1..Len(http.ingests) : ~http.ingests[i].raised
PathAlerts(port, full_path) ==
    {i \in 1..Len(http.db.alert) :
        http.db.alert[i].port = port /\ http.db.alert[i].description = full_path}

\* C34 as stated: after two taps for port 8080 with full path /a?x have been
\* ingested, the http_path_stats row keyed (8080, /a?x) has count 2 and
\* exactly one alert exists for it.
C34_RowKeyedByFullPath ==
    (NoIngestRaised /\ Cardinality(SameFullPathIngests(8080, PathAQuery)) = 2)
        => /\ <<8080, PathAQuery>> \in DOMAIN http.db.http_path_stats
           /\ http.db.http_path_stats[<<8080, PathAQuery>>] = 2
           /\ Cardinality(PathAlerts(8080, PathAQuery)) = 1

\* C34 amended: the row is keyed by the path without the query string.  When
\* no call raised, the row (port, path) counts the ingests of that port whose
\* full path parses to path, there is no row keyed by a full path with a
\* query string, and exactly one alert names the row: it carries the full path
\* of the first of those ingests, so a second ingest raises none.
C34_RowKeyedByParsedPath ==
    NoIngestRaised =>
        /\ \A k \in DOMAIN http.db.http_path_stats :
               /\ urlparse_path(k[2]) = k[2]
               /\ http.db.http_path_stats[k] = Cardinality(CountedIngests(k[1], k[2]))
               /\ Cardinality({i \in 1..Len(http.db.alert) :
                      AlertKey(http.db.alert[i]) = k}) = 1
        /\ \A i \in 1..Len(http.ingests) :
               PortKnown(http.ingests[i].port) =>
                   <<http.ingests[i].port, urlparse_path(http.ingests[i].full_path)>>
                       \in DOMAIN http.db.http_path_stats
        /\ \A i \in 1..Len(http.db.alert) :
               \E j \in CountedIngests(AlertKey(http.db.alert[i])[1], AlertKey(http.db.alert[i])[2]) :
                   /\ http.db.alert[i].description = http.ingests[j].full_path
                   /\ \A l \in CountedIngests(AlertKey(http.db.alert[i])[1], AlertKey(http.db.alert[i])[2]) : j <= l

\* two ingests of /a?x on port 8080: the row (8080, /a) has count 2, one alert
W_C34 ==
    /\ NoIngestRaised
    /\ Cardinality(SameFullPathIngests(8080, PathAQuery)) = 2
    /\ http.db.http_path_stats[<<8080, PathA>>] = 2
    /\ Cardinality(PathAlerts(8080, PathAQuery)) = 1
    /\ Len(http.db.alert) = 1

\* the ingest a process_tap step appends
LastIngest(h) == h.ingests[Len(h.ingests)]
StatsRow(h, port) ==
    IF port \in DOMAIN h.db.service_stats
       THEN h.db.service_stats[port]
       ELSE [total_requests |-> 0, total_blocked_requests |-> 0, total_responses |-> 0,
             total_flags_written |-> 0, total_flags_retrieved |-> 0]

\* C35: a process_tap call with a known port that does not raise adds 1 to
\* total_requests of that port and 1 to exactly one of total_blocked_requests
\* (trailer x-blocked is "1") or total_responses (otherwise), and leaves the
\* rows of the other ports alone; in every state, for every port,
\* total_requests = total_responses + total_blocked_requests.
C35_RequestIsBlockedOrAnswered ==
    /\ [][(http' # http /\ PortKnown(LastIngest(http').port) /\ ~LastIngest(http').raised)
            => LET port == LastIngest(http').port
                   blocked == IF LastIngest(http').is_blocked THEN 1 ELSE 0
               IN /\ StatsRow(http', port).total_requests
                         = StatsRow(http, port).total_requests + 1
                  /\ StatsRow(http', port).total_blocked_requests
                         = StatsRow(http, port).total_blocked_requests + blocked
                  /\ StatsRow(http', port).total_responses
                         = StatsRow(http, port).total_responses + (1 - blocked)
                  /\ \A q \in DOMAIN http'.db.service_stats :
                         q # port => StatsRow(http', q) = StatsRow(http, q)]_vars
    /\ [](\A q \in DOMAIN http.db.service_stats :
              StatsRow(http, q).total_requests
                  = StatsRow(http, q).total_responses
                        + StatsRow(http, q).total_blocked_requests)

\* a blocked and an answered request of port 8080 have been counted
W_C35 ==
    /\ NoIngestRaised
    /\ 8080 \in DOMAIN http.db.service_stats
    /\ http.db.service_stats[8080].total_requests = 2
    /\ http.db.service_stats[8080].total_blocked_requests = 1
    /\ http.db.service_stats[8080].total_responses = 1

\* C36: a process_tap call for a log entry whose upstream_host yields no port
\* inserts the HttpRequest row with port 0, the HttpResponse row, the header
\* rows and the flag rows of the tap, and changes no service_stats, path,
\* response-code or time-bucket row, raises no alert and adds no request to
\* the session timelines.
C36_NoPortIsInsertedUncounted ==
    [][(http' # http /\ ~PortKnown(LastIngest(http').port) /\ ~LastIngest(http').raised)
          => LET data == TapContent(LastIngest(http').tap)
                 n == Len(http.db.http_request)
             IN /\ Len(http'.db.http_request) = n + 1
                /\ SubSeq(http'.db.http_request, 1, n) = http.db.http_request
                /\ http'.db.http_request[n + 1].port = 0
                /\ http'.db.http_request[n + 1].tap_id = LastIngest(http').tap
                /\ Len(http'.db.http_response) = Len(http.db.http_response) + 1
                /\ http'.db.http_response[Len(http'.db.http_response)].request_id = n + 1
                /\ Len(http'.db.http_header)
                       = Len(http.db.http_header) + Len(tap_request_headers(data))
                /\ \A i \in (Len(http.db.http_header) + 1)..Len(http'.db.http_header) :
                       http'.db.http_header[i].request_id = n + 1
                /\ Len(http'.db.flag)
                       = Len(http.db.flag) + Len(find_body_flags(data.req_body, 1))
                             + Len(find_body_flags(data.resp_body, 1))
                /\ http'.db.service_stats = http.db.service_stats
                /\ http'.db.http_response_code_stats = http.db.http_response_code_stats
                /\ http'.db.http_path_stats = http.db.http_path_stats
                /\ http'.db.http_path_time_stats = http.db.http_path_time_stats
                /\ http'.db.http_request_time_stats = http.db.http_request_time_stats
                /\ http'.db.alert = http.db.alert
                /\ http'.session_calls = http.session_calls]_vars

\* a request without port was inserted after one that was counted for 8080
W_C36 ==
    /\ Len(http.ingests) = 2
    /\ NoIngestRaised
    /\ PortKnown(http.ingests[1].port)
    /\ ~PortKnown(http.ingests[2].port)
    /\ http.db.http_request[2].port = 0
    /\ Len(http.db.flag) > 0
    /\ Len(http.session_calls) = 1
    /\ DOMAIN http.db.service_stats = {8080}

\* ------------------------------------------------------------------- C37
\* the requests added before or with request r that share its port and its
\* request-cookie session and started strictly earlier; those that share its
\* Set-Cookie session and started strictly later
AddedOf(ss, q, header_key) == get_session(ss.added[q][IF header_key = "cookie" THEN "request_headers" ELSE "response_headers"], header_key, 1)
EarlierInTimeline(ss, r) ==
    {q \in 1..Len(ss.added) :
        /\ ss.added[q].port = ss.added[r].port
        /\ AddedOf(ss, r, "cookie") # NONE
        /\ AddedOf(ss, q, "cookie") = AddedOf(ss, r, "cookie")
        /\ ss.added[q].start_time < ss.added[r].start_time}
LaterInTimeline(ss, r) ==
    {q \in 1..Len(ss.added) :
        /\ ss.added[q].port = ss.added[r].port
        /\ AddedOf(ss, r, "set-cookie") # NONE
        /\ AddedOf(ss, q, "set-cookie") = AddedOf(ss, r, "set-cookie")
        /\ ss.added[q].start_time > ss.added[r].start_time}
LinksTo(ss, r) == {k \in 1..Len(ss.links) : ss.links[k].to_request_id = r}
LinksFrom(ss, r) == {k \in 1..Len(ss.links) : ss.links[k].from_request_id = r}
ExactLinks(ss, r) ==
    /\ LinksTo(ss, r) \cup LinksFrom(ss, r) = 1..Len(ss.links)
    /\ Cardinality(LinksTo(ss, r)) = IF EarlierInTimeline(ss, r) = {} THEN 0 ELSE 1
    /\ Cardinality(LinksFrom(ss, r)) = IF LaterInTimeline(ss, r) = {} THEN 0 ELSE 1
    /\ \A k \in LinksTo(ss, r) :
          /\ ss.links[k].from_request_id \in EarlierInTimeline(ss, r)
          /\ \A q \in EarlierInTimeline(ss, r) :
                ss.added[q].start_time <= ss.added[ss.links[k].from_request_id].start_time
    /\ \A k \in LinksFrom(ss, r) :
          /\ ss.links[k].to_request_id \in LaterInTimeline(ss, r)
          /\ \A q \in LaterInTimeline(ss, r) :
                ss.added[q].start_time >= ss.added[ss.links[k].to_request_id].start_time

\* C37: get_links for request r of port p emits Link(r', r) exactly when the
\* request-cookie timeline of r's session_in holds an entry strictly before
\* r's start time, r' being an entry with the greatest such timestamp, and
\* Link(r, r'') exactly when the Set-Cookie timeline of r's session_out holds
\* an entry strictly after it, r'' being an entry with the smallest such
\* timestamp; it emits nothing else, so entries with an equal timestamp are
\* never linked, in whatever order the requests were added.
C37_LinkDerivationIsExact ==
    [][session_storage'.asked # session_storage.asked
          => ExactLinks(session_storage', session_storage'.asked[2])]_vars

\* the request asked about has an earlier request in its timeline, which is
\* linked, and another request with its own timestamp, added before it, which
\* is not
W_C37 ==
    /\ session_storage.asked[2] \in 1..Len(session_storage.added)
    /\ Len(session_storage.added) = session_storage.asked[2]
    /\ Len(session_storage.links) >= 1
    /\ ExactLinks(session_storage, session_storage.asked[2])
    /\ EarlierInTimeline(session_storage, session_storage.asked[2]) # {}
    /\ \E q \in 1..(session_storage.asked[2] - 1) :
          /\ session_storage.added[q].port
                = session_storage.added[session_storage.asked[2]].port
          /\ AddedIn(q) = AddedIn(session_storage.asked[2])
          /\ AddedOut(q) = AddedOut(session_storage.asked[2])
          /\ session_storage.added[q].start_time
                = session_storage.added[session_storage.asked[2]].start_time

\* ------------------------------------------------------------------- C38
\* byte length of the access-log file
FileLen(log) == LineEnd(log, Len(log))

\* C38: a read_new_entries call on a file that is shorter than last_position
\* returns no entries and leaves last_position unchanged, and so does every
\* call until the file has grown past last_position; no call lowers
\* last_position.
C38_ShortFileReadsNothing ==
    [][/\ (tail'.calls # tail.calls /\ FileLen(access_log) <= last_position)
            => /\ tail'.returned = tail.returned
               /\ last_position' = last_position
       /\ last_position' >= last_position]_vars

\* entries were read, the file was cut below last_position, and the last call
\* found the file shorter than last_position
W_C38 ==
    /\ tail.calls >= 2
    /\ tail.returned # <<>>
    /\ last_position > 0
    /\ tail.file_len < last_position

\* ------------------------------------------------------------------- C40
ArchivesOfTap(name) == {a \in archives : name \in a.members}

\* C40: a tap file is consumed at most once: once an access-log entry has
\* obtained it, no later entry with the same request id obtains it, in the
\* same or in a later cycle, so the Store holds at most one HttpRequest row of
\* a tap file and at most one archive has it as a member.
C40_TapConsumedAtMostOnce ==
    \A name \in JsonFiles :
        /\ Cardinality(RowsOfTap(db, name)) <= 1
        /\ Cardinality(ArchivesOfTap(name)) <= 1

====
